---- MODULE Spec2Model ----
(***************************************************************************)
(* The answer pipeline of backend/app/agent: the stages search,            *)
(* synthesize, enrich_images and format_output run over one AgentState,    *)
(* wired by build_graph.  External calls (SERP provider, LLM, image        *)
(* search) are inputs: each call returns one outcome drawn from a bounded  *)
(* set of transport failures and JSON payloads.                             *)
(***************************************************************************)
EXTENDS Integers, Sequences, FiniteSets, TLC

VARIABLES
    pc,        \* the graph node that runs next, "done" after END, "failed" when an exception escaped
    env,       \* the configuration read by config.py
    state,     \* the AgentState threaded through the nodes
    serp,      \* the SERP provider's answer to search's request ("unsent" before)
    llm,       \* the LLM provider's answer to synthesize's request ("unsent" before)
    calls,     \* external requests issued so far, per kind
    runs,      \* how many times each node has been entered
    pool,      \* the ThreadPoolExecutor's futures of enrich_images, one per citation
    escaped,   \* the exception that left a node, "" when none did
    call       \* a helper function called on its own: its name, arguments and return value

vars == <<pc, env, state, serp, llm, calls, runs, pool, escaped, call>>

(***************************************************************************)
(* Bounds of the model.                                                    *)
(***************************************************************************)
MaxOrganic == 11      \* longest organic list of a provider answer (SearchSpec)
MaxCits == 2          \* longest citation list of an LLM answer in the full pipeline
MaxLLMCits == 6       \* longest citation list of an LLM answer (SynthSpec)

(***************************************************************************)
(* JSON / Python values.  Every value is a record tagged by its Python     *)
(* type, so that values of different types can be compared.                *)
(***************************************************************************)
None == [k |-> "null"]
JStr(s) == [k |-> "str", s |-> s]
JInt(n) == [k |-> "int", n |-> n]
JFloat(n) == [k |-> "float", whole |-> n]   \* a float with a fraction; int() gives whole
JBool(b) == [k |-> "bool", b |-> b]
ListV(xs) == [k |-> "list", items |-> xs]
Dict(f) == [k |-> "dict", f |-> f]
EmptyDict == Dict(<<>>)
EmptyList == ListV(<<>>)

IsDict(v) == v.k = "dict"
IsList(v) == v.k = "list"
IsStr(v) == v.k = "str"
IsInt(v) == v.k = "int"

\* Python truthiness (bool(v)).
Truthy(v) ==
    CASE v.k = "null" -> FALSE
      [] v.k = "str" -> v.s # ""
      [] v.k = "int" -> v.n # 0
      [] v.k = "float" -> TRUE
      [] v.k = "bool" -> v.b
      [] v.k = "list" -> Len(v.items) > 0
      [] v.k = "dict" -> DOMAIN v.f # {}

\* a or b
PyOr(a, b) == IF Truthy(a) THEN a ELSE b

\* d.get(key, default) for a dict d.
Get(d, key, default) == IF key \in DOMAIN d.f THEN d.f[key] ELSE default

\* xs[:n] for a sequence.
Take(xs, n) == SubSeq(xs, 1, IF Len(xs) < n THEN Len(xs) ELSE n)

Min(a, b) == IF a < b THEN a ELSE b

\* name = v, then the statements F that read name.
Bind(v, F(_)) == F(v)

\* The result of an expression that may raise: a value, or the exception's class.
Ok(v) == [exc |-> "", val |-> v]
Raise(e) == [exc |-> e]

(***************************************************************************)
(* Text.  Strings are opaque; what the code asks of a string is tabulated. *)
(***************************************************************************)
\* json.loads(text) for the texts a provider body or an LLM completion may hold.
json_loads(text) ==
    CASE text = "{}" -> Ok(EmptyDict)
      [] text = "[]" -> Ok(EmptyList)
      [] text = "null" -> Ok(None)
      [] text = "7" -> Ok(JInt(7))
      [] text = "{\"organic\": []}" -> Ok(Dict("organic" :> EmptyList))
      [] OTHER -> Raise("JSONDecodeError")

\* The i-th page of the web: its host and its link.
Host(i) == "site" \o ToString(i) \o ".example"
Link(i) == "https://" \o Host(i) \o "/p"
Pages == 1..(MaxOrganic + 1)
Links == [i \in Pages |-> Link(i)]
Hosts == [i \in Pages |-> Host(i)]

\* urlparse(url).netloc
netloc(url) ==
    IF \E i \in Pages : url = Links[i]
    THEN Hosts[CHOOSE i \in Pages : url = Links[i]]
    ELSE ""

(***************************************************************************)
(* Pydantic models of state.py.                                            *)
(***************************************************************************)
\* SearchResult(...): the fields are validated; a str field given a non-str raises.
SearchResult(title, url, snippet, dom, extended_snippet, thumbnail) ==
    IF /\ IsStr(title) /\ IsStr(url) /\ IsStr(snippet)
       /\ extended_snippet.k \in {"str", "null"}
       /\ thumbnail.k \in {"str", "null"}
    THEN Ok([title |-> title.s, url |-> url.s, snippet |-> snippet.s, domain |-> dom,
             extended_snippet |-> extended_snippet, thumbnail |-> thumbnail])
    ELSE Raise("ValidationError")

\* AgentState(query=..., history=[{"role": "user", "content": query}]) of api/main.py.
AgentState(query) ==
    [query |-> query,
     history |-> <<[role |-> "user", content |-> JStr(query)]>>,
     results |-> None, answer |-> None, overview |-> None, overview_image |-> None,
     topics |-> None, citations |-> None, final_payload |-> None]

(***************************************************************************)
(* search (nodes/search.py).                                               *)
(***************************************************************************)
\* BRIGHT_DATA_API_KEY or SERPAPI_API_KEY
ApiKey(e) == e.BRIGHT_DATA_API_KEY \/ e.SERPAPI_API_KEY

\* Lines 69-112: the overview image, by tier.  body is a dict here.
KnowledgeGraphImage(body) ==
    LET kg == Get(body, "knowledge_graph", EmptyDict)
    IN IF IsDict(kg)
       THEN LET kg_image == Get(kg, "image", None)
            IN IF Truthy(kg_image) /\ IsStr(kg_image) THEN kg_image ELSE None
       ELSE None

FirstImageResult(body) ==
    LET images == Get(body, "images", EmptyList)
    IN IF IsList(images) /\ Len(images.items) > 0 /\ IsDict(images.items[1])
       THEN LET first_image == images.items[1]
                img_url == PyOr(PyOr(Get(first_image, "original", None),
                                     Get(first_image, "link", None)),
                                Get(first_image, "thumbnail", None))
            IN IF Truthy(img_url) THEN img_url ELSE None
       ELSE None

\* for img_field in ["image", "og_image", "preview_image"]: first truthy one.
OtherImageField(top_result) ==
    LET a == Get(top_result, "image", None)
        b == Get(top_result, "og_image", None)
        c == Get(top_result, "preview_image", None)
    IN IF Truthy(a) THEN a ELSE IF Truthy(b) THEN b ELSE IF Truthy(c) THEN c ELSE None

\* Lines 92-109; len() and [0] raise on values that are no sequence.
TopResultImage(body) ==
    LET organic_results == Get(body, "organic", EmptyList)
    IN IF ~Truthy(organic_results) THEN Ok(None)
       ELSE IF organic_results.k \in {"int", "float", "bool"} THEN Raise("TypeError")
       ELSE IF IsDict(organic_results) THEN Raise("KeyError")
       ELSE IF IsStr(organic_results) THEN Ok(None)
       ELSE LET top_result == organic_results.items[1]
            IN IF ~IsDict(top_result) THEN Ok(None)
               ELSE LET thumbnail == Get(top_result, "thumbnail", None)
                    IN IF Truthy(thumbnail) THEN Ok(thumbnail)
                       ELSE Ok(OtherImageField(top_result))

OverviewImageTiers(body) ==
    LET kg == KnowledgeGraphImage(body)
        im == FirstImageResult(body)
    IN IF Truthy(kg) THEN Ok(kg)
       ELSE IF Truthy(im) THEN Ok(im)
       ELSE TopResultImage(body)

\* Lines 120-155 for one organic entry r: "skip" (continue), a SearchResult, or an exception.
ParseOrganic(r) ==
    IF ~IsDict(r) THEN Raise("AttributeError")
    ELSE IF ~Truthy(Get(r, "link", None)) THEN [exc |-> "", skip |-> TRUE]
    ELSE LET link == Get(r, "link", JStr(""))
             description == Get(r, "description", JStr(""))
             snippet == Get(r, "snippet", JStr(""))
             primary_snippet == PyOr(PyOr(description, snippet), JStr(""))
             extended_snippet == IF Truthy(snippet) THEN snippet
                                 ELSE IF Truthy(description) THEN description ELSE None
         IN IF ~IsStr(link) THEN Raise("AttributeError")     \* urlparse(link)
            ELSE LET made == SearchResult(Get(r, "title", JStr("")), link, primary_snippet,
                                          netloc(link.s), extended_snippet,
                                          Get(r, "thumbnail", None))
                 IN IF made.exc # "" THEN made
                    ELSE [exc |-> "", skip |-> FALSE, val |-> made.val]

\* The loop of lines 119-155 over entries: the results appended so far and the
\* exception that ended the loop, if one did.
RECURSIVE OrganicLoop(_, _)
OrganicLoop(entries, acc) ==
    IF entries = <<>> THEN [exc |-> "", results |-> acc]
    ELSE LET one == ParseOrganic(Head(entries))
         IN IF one.exc # "" THEN [exc |-> one.exc, results |-> acc]
            ELSE OrganicLoop(Tail(entries), IF one.skip THEN acc ELSE Append(acc, one.val))

\* Number of organic entries search keeps (the [:10] of line 117).
SEARCH_LIMIT == 10

\* A search that keeps every organic entry (no [:10]); C5 tells it from OrganicSlice.
OrganicSliceAll(body) ==
    LET organic == Get(body, "organic", EmptyList)
    IN IF IsList(organic) THEN Ok(organic.items)
       ELSE IF IsStr(organic)
            THEN (IF organic.s = "" THEN Ok(<<>>) ELSE Ok(<<JStr(organic.s)>>))
       ELSE Raise("TypeError")

\* body.get("organic", [])[:10]
OrganicSlice(body) ==
    LET organic == Get(body, "organic", EmptyList)
    IN IF IsList(organic) THEN Ok(Take(organic.items, SEARCH_LIMIT))
       ELSE IF IsStr(organic)
            THEN (IF organic.s = "" THEN Ok(<<>>) ELSE Ok(<<JStr(organic.s)>>))
       ELSE Raise("TypeError")

\* Lines 59-155 on the decoded answer api_response: the state when the try block
\* is left, and the exception that left it ("" when it ran to its end).
ParseSerp(st, api_response) ==
    IF ~IsDict(api_response) THEN [st |-> st, exc |-> "AttributeError"]
    ELSE
    LET raw == Get(api_response, "body", EmptyDict)
        decoded == IF IsStr(raw) THEN json_loads(raw.s) ELSE Ok(raw)
    IN IF decoded.exc # "" THEN [st |-> st, exc |-> decoded.exc]
       ELSE IF ~IsDict(decoded.val) THEN [st |-> st, exc |-> "AttributeError"]
       ELSE
       LET body == decoded.val
           image == OverviewImageTiers(body)
       IN IF image.exc # "" THEN [st |-> st, exc |-> image.exc]
          ELSE
          LET st1 == [st EXCEPT !.overview_image = image.val]
              sliced == OrganicSlice(body)
          IN IF sliced.exc # "" THEN [st |-> st1, exc |-> sliced.exc]
             ELSE LET loop == OrganicLoop(sliced.val, <<>>)
                  IN [st |-> [st1 EXCEPT !.results = ListV(loop.results)],
                      exc |-> loop.exc]

\* A search that issues the request a second time after a transport failure; C3
\* tells it from search.
searchRetrying(e, st, outcome) ==
    IF ~ApiKey(e) \/ ~e.SERP_ZONE
    THEN [st |-> [st EXCEPT !.results = EmptyList], exc |-> "", sent |-> 0]
    ELSE IF outcome.k \in {"transport", "nonjson"}
         THEN [st |-> [st EXCEPT !.results = EmptyList], exc |-> "", sent |-> 2]
    ELSE LET r == ParseSerp(st, outcome.v)
         IN IF r.exc = "RequestException"
            THEN [st |-> [r.st EXCEPT !.results = EmptyList], exc |-> "", sent |-> 1]
            ELSE [st |-> r.st, exc |-> r.exc, sent |-> 1]

\* A search without the except clause of line 156: a transport failure leaves the
\* node as an exception; C6 tells it from search.
searchUncaught(e, st, outcome) ==
    IF ~ApiKey(e) \/ ~e.SERP_ZONE
    THEN [st |-> [st EXCEPT !.results = EmptyList], exc |-> "", sent |-> 0]
    ELSE IF outcome.k \in {"transport", "nonjson"}
         THEN [st |-> st, exc |-> "RequestException", sent |-> 1]
    ELSE LET r == ParseSerp(st, outcome.v)
         IN [st |-> r.st, exc |-> r.exc, sent |-> 1]

\* search(state) given the provider's outcome: the state returned (or left behind),
\* the exception that escaped, and the number of provider requests issued.
search(e, st, outcome) ==
    IF ~ApiKey(e) \/ ~e.SERP_ZONE
    THEN [st |-> [st EXCEPT !.results = EmptyList], exc |-> "", sent |-> 0]
    ELSE IF outcome.k \in {"transport", "nonjson"}
         \* requests.post / raise_for_status / response.json() raise a RequestException
         THEN [st |-> [st EXCEPT !.results = EmptyList], exc |-> "", sent |-> 1]
    ELSE Bind(ParseSerp(st, outcome.v), LAMBDA r :
            IF r.exc = "RequestException"
            THEN [st |-> [r.st EXCEPT !.results = EmptyList], exc |-> "", sent |-> 1]
            ELSE [st |-> r.st, exc |-> r.exc, sent |-> 1])

(***************************************************************************)
(* synthesize (nodes/synthesize.py).                                       *)
(***************************************************************************)
\* Citation(id=..., title=..., url=..., extended_snippet=...): id is an int already.
Citation(id, title, url, extended_snippet) ==
    IF IsStr(title) /\ IsStr(url) /\ extended_snippet.k \in {"str", "null"}
    THEN Ok([id |-> id, title |-> title.s, url |-> url.s, image |-> None,
             extended_snippet |-> extended_snippet])
    ELSE Raise("ValidationError")

\* int(text): the decimal texts of small numbers parse, any other text raises.
Decimals == [n \in 0..(MaxLLMCits + 1) |-> ToString(n)]
IntOfText(text) ==
    IF \E n \in DOMAIN Decimals : text = Decimals[n]
    THEN Ok(CHOOSE n \in DOMAIN Decimals : text = Decimals[n])
    ELSE Raise("ValueError")

\* int(cid), cid not None.
PyInt(cid) ==
    CASE cid.k = "int" -> Ok(cid.n)
      [] cid.k = "float" -> Ok(cid.whole)
      [] cid.k = "bool" -> Ok(IF cid.b THEN 1 ELSE 0)
      [] cid.k = "str" -> IntOfText(cid.s)
      [] OTHER -> Raise("TypeError")

\* str(v) of lines 137-138.
PyStr(v) ==
    CASE v.k = "str" -> v.s
      [] v.k = "int" -> ToString(v.n)
      [] v.k = "null" -> "None"
      [] v.k = "bool" -> IF v.b THEN "True" ELSE "False"
      [] OTHER -> "<repr>"

\* Limits of synthesize: results[:5], validated_topics[:2], citations[:5].
SYNTH_RESULTS == 5
TOPIC_LIMIT == 2
CITATION_LIMIT == 5

\* Lines 19-21: results = (state.results or [])[:5]
TopResults(st) ==
    IF Truthy(st.results) THEN Take(st.results.items, SYNTH_RESULTS) ELSE <<>>

\* A fallback that resets topics and citations only; C8 tells it from SynthesizeFallback.
SynthesizeFallbackPartial(st) ==
    [st EXCEPT !.topics = EmptyList, !.citations = EmptyList]

\* A fallback that also empties results; C29 tells it from SynthesizeFallback.
SynthesizeFallbackClearing(st) ==
    [st EXCEPT !.overview = JStr(""), !.answer = JStr(""),
               !.topics = EmptyList, !.citations = EmptyList, !.results = EmptyList]

\* Lines 25-28, repeated at every fallback: the four outputs reset together.
SynthesizeFallback(st) ==
    [st EXCEPT !.overview = JStr(""), !.answer = JStr(""),
               !.topics = EmptyList, !.citations = EmptyList]

\* Lines 133-139: the validated topics of a list, in order.
RECURSIVE ValidatedTopics(_)
ValidatedTopics(topics) ==
    IF topics = <<>> THEN <<>>
    ELSE LET topic == Head(topics)
             rest == ValidatedTopics(Tail(topics))
         IN IF IsDict(topic) /\ "title" \in DOMAIN topic.f /\ "content" \in DOMAIN topic.f
            THEN <<[title |-> PyStr(topic.f["title"]),
                    content |-> PyStr(topic.f["content"])]>> \o rest
            ELSE rest

\* Lines 130-142.
TopicsOf(data) ==
    LET topics == Get(data, "topics", EmptyList)
    IN IF IsList(topics) THEN Take(ValidatedTopics(topics.items), TOPIC_LIMIT) ELSE <<>>

\* Lines 150-153: url_to_result[r.url] = r over state.results; a later result
\* with the same url replaces an earlier one.  Given as the lookup .get(url).
UrlToResult(st, url) ==
    LET rs == IF Truthy(st.results) THEN st.results.items ELSE <<>>
        hits == {i \in 1..Len(rs) : rs[i].url = url}
    IN IF hits = {} THEN None
       ELSE LET last == CHOOSE i \in hits : \A j \in hits : j <= i
            IN [k |-> "result", r |-> rs[last]]

\* Lines 158-200 for one entry c of the LLM's citations: the Citation appended, or
\* dropped (continue) with the reason.
BuildCitation(st, c) ==
    IF ~IsDict(c) THEN [kept |-> FALSE, why |-> "not a dict"]
    ELSE LET cid == Get(c, "id", None)
             citation_url == Get(c, "url", JStr(""))
         IN IF cid = None THEN [kept |-> FALSE, why |-> "no id"]
            \* url_to_result.get(citation_url): an unhashable key raises TypeError
            ELSE IF citation_url.k \in {"list", "dict"} THEN [kept |-> FALSE, why |-> "TypeError"]
            \* citation_url[:50] in the log line: only a str can be the key of a match
            ELSE IF ~IsStr(citation_url) THEN [kept |-> FALSE, why |-> "TypeError"]
            ELSE LET matching_result == UrlToResult(st, citation_url.s)
                     extended_snippet == IF matching_result = None THEN None
                                         ELSE matching_result.r.extended_snippet
                     id == PyInt(cid)
                 IN IF id.exc # "" THEN [kept |-> FALSE, why |-> id.exc]
                    ELSE LET made == Citation(id.val, Get(c, "title", JStr("")),
                                              citation_url, extended_snippet)
                         IN IF made.exc # "" THEN [kept |-> FALSE, why |-> made.exc]
                            ELSE [kept |-> TRUE, val |-> made.val]

\* The loop of lines 156-200, in the LLM's order.
RECURSIVE CitationLoop(_, _, _)
CitationLoop(st, cits, acc) ==
    IF cits = <<>> THEN acc
    ELSE LET one == BuildCitation(st, Head(cits))
         IN CitationLoop(st, Tail(cits), IF one.kept THEN Append(acc, one.val) ELSE acc)

\* A truncation that keeps the last five survivors; C10 tells it from TruncateCitations.
TruncateKeepingLast(citations) ==
    IF Len(citations) <= CITATION_LIMIT THEN citations
    ELSE SubSeq(citations, Len(citations) - CITATION_LIMIT + 1, Len(citations))

\* Line 203: state.citations = citations[:5]
TruncateCitations(citations) == Take(citations, CITATION_LIMIT)

\* A parse in which one dropped entry empties the whole citation list; C9 tells it
\* from ParseSynthesis.
ParseSynthesisAllOrNothing(st, data) ==
    IF ~IsDict(data) THEN [st |-> st, exc |-> "AttributeError"]
    ELSE LET overview == Get(data, "overview", Get(data, "answer", JStr("")))
             st1 == [st EXCEPT !.overview = overview, !.answer = overview]
             st2 == [st1 EXCEPT !.topics = ListV(TopicsOf(data))]
             raw == Get(data, "citations", EmptyList)
             cits == IF IsList(raw) THEN raw.items ELSE <<>>
             citations == IF \A i \in 1..Len(cits) : BuildCitation(st, cits[i]).kept
                          THEN CitationLoop(st, cits, <<>>) ELSE <<>>
         IN [st |-> [st2 EXCEPT !.citations = ListV(TruncateCitations(citations))],
             exc |-> ""]

\* Lines 121-203 on the decoded completion data: the state when the try block is
\* left and the exception that left it.
ParseSynthesis(st, data) ==
    IF ~IsDict(data) THEN [st |-> st, exc |-> "AttributeError"]
    ELSE LET overview == Get(data, "overview", Get(data, "answer", JStr("")))
             st1 == [st EXCEPT !.overview = overview, !.answer = overview]
             st2 == [st1 EXCEPT !.topics = ListV(TopicsOf(data))]
             raw == Get(data, "citations", EmptyList)
             cits == IF IsList(raw) THEN raw.items ELSE <<>>
             citations == CitationLoop(st, cits, <<>>)
         IN [st |-> [st2 EXCEPT !.citations = ListV(TruncateCitations(citations))],
             exc |-> ""]

\* Lines 89-216: the try block and its handlers, given the LLM's outcome.
CallLLM(st, outcome) ==
    CASE outcome.k = "error" -> [st |-> st, exc |-> "APIError"]
      [] outcome.k \in {"nochoices", "nocontent"} -> [st |-> SynthesizeFallback(st), exc |-> ""]
      [] outcome.k = "text" -> [st |-> st, exc |-> "JSONDecodeError"]
      [] outcome.k = "json" -> ParseSynthesis(st, outcome.v)

\* A synthesize that checks the credential but not the results; C7 tells it from
\* synthesize.
synthesizeUnguarded(e, st, outcome) ==
    IF ~e.OPENAI_API_KEY
    THEN [st |-> SynthesizeFallback(st), exc |-> "", sent |-> 0]
    ELSE LET r == CallLLM(st, outcome)
         IN IF r.exc # ""
            THEN [st |-> SynthesizeFallback(r.st), exc |-> "", sent |-> 1]
            ELSE [st |-> r.st, exc |-> "", sent |-> 1]

\* synthesize(state) given the LLM's outcome.
synthesize(e, st, outcome) ==
    IF ~e.OPENAI_API_KEY \/ TopResults(st) = <<>>
    THEN [st |-> SynthesizeFallback(st), exc |-> "", sent |-> 0]
    ELSE Bind(CallLLM(st, outcome), LAMBDA r :
            IF r.exc # ""      \* except json.JSONDecodeError / except Exception
            THEN [st |-> SynthesizeFallback(r.st), exc |-> "", sent |-> 1]
            ELSE [st |-> r.st, exc |-> "", sent |-> 1])

(***************************************************************************)
(* enrich_images (nodes/enrich_images.py).                                 *)
(***************************************************************************)
\* What the code asks of a candidate image URL.
StartsHttp(u) ==
    u \in {"https://img.example/a.jpg", "https://img.example/b.png",
           "https://img.example/c.gif", "https://en.wikipedia.org/wiki/X",
           "https://cdn.example/photo"}
StartsDataImage(u) == u = "data:image/png;base64,AAAA"
\* any(blocker in img_url.lower() for blocker in ['/wiki/', '.html', ...])
HasBlocker(u) == u = "https://en.wikipedia.org/wiki/X"
\* Lines 105-108: a thumbnail that ends in an image extension or names an image host.
LooksLikeImage(u) ==
    u \in {"https://img.example/a.jpg", "https://img.example/b.png",
           "https://img.example/c.gif"}

\* image_item.get("original") or .get("url") or .get("src") or .get("thumbnail") or .get("image")
ImageField(image_item) ==
    PyOr(PyOr(PyOr(PyOr(Get(image_item, "original", None), Get(image_item, "url", None)),
                   Get(image_item, "src", None)),
              Get(image_item, "thumbnail", None)),
         Get(image_item, "image", None))

\* Lines 71-95 (and 147-165, 223-251): the first acceptable URL among items, or None.
RECURSIVE FirstAcceptable(_)
FirstAcceptable(items) ==
    IF items = <<>> THEN None
    ELSE LET image_item == Head(items)
             img_url == IF IsDict(image_item) THEN ImageField(image_item) ELSE None
         IN IF /\ Truthy(img_url) /\ IsStr(img_url)
               /\ \/ StartsHttp(img_url.s) /\ ~HasBlocker(img_url.s)
                  \/ ~StartsHttp(img_url.s) /\ StartsDataImage(img_url.s)
            THEN img_url
            ELSE FirstAcceptable(Tail(items))

\* How many image hits each search looks at: images[:5], organic[:5], fallback_images[:3].
IMAGE_TRIES == 5
THUMBNAIL_TRIES == 5
FALLBACK_TRIES == 3

\* images = body.get("images", []); the first acceptable of images[:n].
ImageHits(body, n) ==
    LET images == Get(body, "images", EmptyList)
    IN IF IsList(images) /\ Len(images.items) > 0
       THEN FirstAcceptable(Take(images.items, n))
       ELSE None

\* Lines 98-109: the first organic thumbnail that looks like an image.
RECURSIVE FirstThumbnail(_)
FirstThumbnail(rs) ==
    IF rs = <<>> THEN None
    ELSE LET result == Head(rs)
             thumbnail == IF IsDict(result) THEN Get(result, "thumbnail", None) ELSE None
         IN IF /\ Truthy(thumbnail) /\ IsStr(thumbnail)
               /\ StartsHttp(thumbnail.s) /\ LooksLikeImage(thumbnail.s)
            THEN thumbnail
            ELSE FirstThumbnail(Tail(rs))

OrganicThumbnail(body) ==
    LET organic_results == Get(body, "organic", EmptyList)
    IN IF IsList(organic_results)
       THEN Ok(FirstThumbnail(Take(organic_results.items, THUMBNAIL_TRIES)))
       ELSE IF IsStr(organic_results) THEN Ok(None)
       ELSE Raise("TypeError")

\* Lines 60-65 (212-217, 138-142): the body of a provider answer.
ImageBody(outcome) ==
    IF outcome.k \in {"transport", "nonjson"} THEN Raise("RequestException")
    ELSE IF ~IsDict(outcome.v) THEN Raise("AttributeError")
    ELSE LET raw == Get(outcome.v, "body", EmptyDict)
             decoded == IF IsStr(raw) THEN json_loads(raw.s) ELSE Ok(raw)
         IN IF decoded.exc # "" THEN decoded
            ELSE IF ~IsDict(decoded.val) THEN Raise("AttributeError")
            ELSE decoded

\* The handlers of lines 171-176 and 255-260: these exceptions become "no image".
CaughtByImageSearch == {"RequestException", "JSONDecodeError", "KeyError", "TypeError"}

\* _search_overview_image(query, ...) given the provider's outcome.
SearchOverviewImage(outcome) ==
    LET body == ImageBody(outcome)
    IN IF body.exc \in CaughtByImageSearch THEN Ok(None)
       ELSE IF body.exc # "" THEN body
       ELSE Ok(ImageHits(body.val, IMAGE_TRIES))

\* Lines 114-117: domain = (netloc or path).replace('www.', '').split('/')[0]
FallbackDomain(citation_url) ==
    IF netloc(citation_url) # "" THEN netloc(citation_url) ELSE citation_url

\* A first tier that goes on to the domain request also when its own request failed;
\* C25 tells it from CompositeTier.
CompositeTierFallingBack(citation_url, outcome) ==
    LET body == ImageBody(outcome)
    IN IF body.exc \in CaughtByImageSearch THEN [next |-> "fallback"]
       ELSE IF body.exc # "" THEN [next |-> "raise", exc |-> body.exc]
       ELSE LET hit == ImageHits(body.val, IMAGE_TRIES)
                thumb == OrganicThumbnail(body.val)
            IN IF hit # None THEN [next |-> "return", val |-> hit]
               ELSE IF thumb.exc # "" THEN [next |-> "return", val |-> None]
               ELSE IF thumb.val # None THEN [next |-> "return", val |-> thumb.val]
               ELSE [next |-> "fallback"]

\* Lines 52-109 and 169-176 of _search_image_for_citation, given the outcome of the
\* title+context request: the worker returns ("return"), raises ("raise"), or goes
\* on to the domain request ("fallback").
CompositeTier(citation_url, outcome) ==
    LET body == ImageBody(outcome)
    IN IF body.exc \in CaughtByImageSearch THEN [next |-> "return", val |-> None]
       ELSE IF body.exc # "" THEN [next |-> "raise", exc |-> body.exc]
       ELSE LET hit == ImageHits(body.val, IMAGE_TRIES)
                thumb == OrganicThumbnail(body.val)
            IN IF hit # None THEN [next |-> "return", val |-> hit]
               ELSE IF thumb.exc # "" THEN [next |-> "return", val |-> None]
               ELSE IF thumb.val # None THEN [next |-> "return", val |-> thumb.val]
               ELSE IF citation_url # "" /\ FallbackDomain(citation_url) # ""
                    THEN [next |-> "fallback"]
                    ELSE [next |-> "return", val |-> None]

\* Lines 131-169: the domain request; every exception is caught (line 166).
DomainTier(outcome) ==
    LET body == ImageBody(outcome)
    IN IF body.exc # "" THEN None
       ELSE ImageHits(body.val, FALLBACK_TRIES)

\* A check of the key alone; C13 tells it from ImageCreds.
ImageCredsKeyOnly(e) == ApiKey(e)

\* Lines 273-276: api_key and zone are both set.
ImageCreds(e) == ApiKey(e) /\ e.SERP_ZONE

\* Line 313: citation.image is not None and citation.image.strip()
HasImage(citation) == citation.image # None /\ citation.image.s \notin {"", " "}

\* A pool that is given every citation, with or without an image; C16 tells it from
\* Submit.
SubmitAll(citations) ==
    [i \in 1..Len(citations) |->
        [ph |-> "queued", composite |-> 0, domain |-> 0, tier1 |-> [k |-> "unsent"],
         tier2 |-> [k |-> "unsent"], result |-> None]]

\* A pool that is not given the last citation; C26 tells it from Submit.
SubmitButLast(citations) ==
    [i \in 1..Len(citations) |->
        [ph |-> IF HasImage(citations[i]) \/ i = Len(citations) THEN "has_image" ELSE "queued",
         composite |-> 0, domain |-> 0, tier1 |-> [k |-> "unsent"],
         tier2 |-> [k |-> "unsent"], result |-> None]]

\* Lines 310-317 and 344-347: one future per citation that needs an image.
Submit(citations) ==
    [i \in 1..Len(citations) |->
        [ph |-> IF HasImage(citations[i]) THEN "has_image" ELSE "queued",
         composite |-> 0, domain |-> 0, tier1 |-> [k |-> "unsent"],
         tier2 |-> [k |-> "unsent"], result |-> None]]

\* Line 340: max_workers = min(len(citations_to_enrich), 5)
WORKER_CAP == 5
\* A pool with one thread per citation to enrich; C15 tells it from MaxWorkers.
MaxWorkersUncapped(p) == Cardinality({i \in DOMAIN p : p[i].ph # "has_image"})
MaxWorkers(p) == Min(Cardinality({i \in DOMAIN p : p[i].ph # "has_image"}), WORKER_CAP)
Running(p) == {i \in DOMAIN p : p[i].ph \in {"running", "fallback"}}

\* Lines 281-295: the overview image backfill, given the provider's outcome.
OverviewBackfill(st, outcome) ==
    IF Truthy(st.overview_image)
    THEN \* the log line of 295 slices state.overview_image
         IF st.overview_image.k \in {"str", "list"}
         THEN [st |-> st, exc |-> "", sent |-> 0]
         ELSE [st |-> st, exc |-> "TypeError", sent |-> 0]
    ELSE IF st.query = "" THEN [st |-> st, exc |-> "", sent |-> 0]
    ELSE LET found == SearchOverviewImage(outcome)
         IN IF found.exc # "" THEN [st |-> st, exc |-> found.exc, sent |-> 1]
            ELSE IF Truthy(found.val)
                 THEN [st |-> [st EXCEPT !.overview_image = found.val], exc |-> "", sent |-> 1]
                 ELSE [st |-> st, exc |-> "", sent |-> 1]

\* state.citations or []
CitationsOf(st) == IF Truthy(st.citations) THEN st.citations.items ELSE <<>>

\* A collection that writes a found image to every citation still without one; C14
\* tells it from ApplyResult.
ApplyResultShared(st, i, result) ==
    IF result.exc = "" /\ Truthy(result.val)
    THEN [st EXCEPT !.citations =
             ListV([j \in 1..Len(st.citations.items) |->
                       IF j = i \/ ~HasImage(st.citations.items[j])
                       THEN [st.citations.items[j] EXCEPT !.image = result.val]
                       ELSE st.citations.items[j]])]
    ELSE st

\* Lines 350-361: the main thread takes future i's result.
ApplyResult(st, i, result) ==
    IF result.exc = "" /\ Truthy(result.val)
    THEN [st EXCEPT !.citations = ListV([st.citations.items EXCEPT ![i].image = result.val])]
    ELSE st

(***************************************************************************)
(* format_output (nodes/format_output.py).                                 *)
(***************************************************************************)
\* c.model_dump(mode="json")
ModelDump(c) ==
    Dict("id" :> JInt(c.id) @@ "title" :> JStr(c.title) @@ "url" :> JStr(c.url)
         @@ "image" :> c.image @@ "extended_snippet" :> c.extended_snippet)

\* Lines 35-38 for a str overview: overview, then "\n\n{title}: {content}" per topic.
RECURSIVE FullResponse(_, _)
FullResponse(text, topics) ==
    IF topics = <<>> THEN text
    ELSE FullResponse(text \o "\n\n" \o Head(topics).title \o ": " \o Head(topics).content,
                      Tail(topics))

\* state.overview or state.answer or ""
OverviewOf(st) == PyOr(PyOr(st.overview, st.answer), JStr(""))
\* state.topics or []
TopicsOfState(st) == IF Truthy(st.topics) THEN st.topics.items ELSE <<>>

\* list += text: the list is extended by the characters of text, one element each.
\* The run of one-character strings of text is kept as one element.
Chars(text) == [k |-> "chars", of |-> text]

\* Lines 35-38 for a list overview: one "+=" per topic.
RECURSIVE ExtendedBy(_, _)
ExtendedBy(items, topics) ==
    IF topics = <<>> THEN items
    ELSE ExtendedBy(Append(items, Chars("\n\n" \o Head(topics).title \o ": "
                                        \o Head(topics).content)),
                    Tail(topics))

\* Lines 33-39: the assistant turn.  "+=" on a str overview concatenates, on a list
\* overview extends the list in place, on any other value raises TypeError.  The list
\* extended in place is one object: state.overview, state.answer when it is the same
\* list, and the content of every earlier turn that holds it, grow with it.
AppendTurn(st) ==
    LET overview == OverviewOf(st)
        topics == TopicsOfState(st)
        turn(content) == [role |-> "assistant", content |-> content]
    IN IF ~Truthy(overview) THEN [st |-> st, exc |-> ""]
       ELSE IF topics = <<>>
            THEN [st |-> [st EXCEPT !.history = Append(@, turn(overview))], exc |-> ""]
       ELSE IF IsStr(overview)
            THEN [st |-> [st EXCEPT !.history =
                              Append(@, turn(JStr(FullResponse(overview.s, topics))))],
                  exc |-> ""]
       ELSE IF IsList(overview)
            THEN LET grown == ListV(ExtendedBy(overview.items, topics))
                     same(h) == [j \in 1..Len(h) |->
                                    IF h[j].content = overview
                                    THEN [h[j] EXCEPT !.content = grown] ELSE h[j]]
                 IN [st |-> [st EXCEPT !.overview = IF @ = overview THEN grown ELSE @,
                                       !.answer = IF @ = overview THEN grown ELSE @,
                                       !.history = Append(same(@), turn(grown))],
                     exc |-> ""]
       ELSE [st |-> st, exc |-> "TypeError"]

\* Lines 42-51 and 60-67: the payload and the fallback payload.
Payload(st, sources, ts) ==
    [k |-> "payload", question |-> st.query, overview |-> OverviewOf(st),
     overview_image |-> st.overview_image, topics |-> TopicsOfState(st),
     sources |-> sources, timestamp |-> ts]

\* A payload that shows a placeholder source when there is no citation; C12 tells it
\* from Sources.
SourcesWithPlaceholder(st) ==
    IF CitationsOf(st) = <<>>
    THEN <<Dict("id" :> JInt(1) @@ "title" :> JStr("") @@ "url" :> JStr("")
                @@ "image" :> None @@ "extended_snippet" :> None)>>
    ELSE [i \in 1..Len(CitationsOf(st)) |-> ModelDump(CitationsOf(st)[i])]

Sources(st) == [i \in 1..Len(CitationsOf(st)) |-> ModelDump(CitationsOf(st)[i])]

\* format_output without its except branch: the exception of the try block leaves the
\* node; C19 tells it from format_output.
format_outputUnguarded(st, ts) ==
    Bind(AppendTurn(st), LAMBDA turned :
        IF turned.exc = ""
        THEN [st |-> [turned.st EXCEPT !.final_payload =
                          Payload(turned.st, Sources(turned.st), ts)],
              exc |-> ""]
        ELSE [st |-> turned.st, exc |-> turned.exc])

\* format_output(state), the clock reading ts.
format_output(st, ts) ==
    Bind(AppendTurn(st), LAMBDA turned :
        IF turned.exc = ""
        THEN [st |-> [turned.st EXCEPT !.final_payload =
                          Payload(turned.st, Sources(turned.st), ts)],
              exc |-> ""]
        ELSE [st |-> [turned.st EXCEPT !.final_payload = Payload(turned.st, <<>>, ts)],
              exc |-> ""])

(***************************************************************************)
(* prioritize (nodes/prioritize.py): the URL helpers.  A URL is the        *)
(* sequence of its characters.                                             *)
(***************************************************************************)
\* str.lower(), on the letters the URLs of the model are written with.
LowerChar(c) ==
    CASE c = "H" -> "h" [] c = "T" -> "t" [] c = "P" -> "p" [] c = "W" -> "w"
      [] c = "E" -> "e" [] OTHER -> c
lower(url) == [i \in 1..Len(url) |-> LowerChar(url[i])]

\* str.strip(): without the whitespace at both ends.
RECURSIVE strip(_)
strip(url) ==
    IF url # <<>> /\ Head(url) = " " THEN strip(Tail(url))
    ELSE IF url # <<>> /\ url[Len(url)] = " " THEN strip(SubSeq(url, 1, Len(url) - 1))
    ELSE url

\* str.rstrip(c): without any c at the end.
RECURSIVE rstrip(_, _)
rstrip(url, c) ==
    IF url # <<>> /\ url[Len(url)] = c THEN rstrip(SubSeq(url, 1, Len(url) - 1), c)
    ELSE url

\* if url.startswith(prefix): url = url[len(prefix):]
RemovePrefix(url, prefix) ==
    IF Len(url) >= Len(prefix) /\ SubSeq(url, 1, Len(prefix)) = prefix
    THEN SubSeq(url, Len(prefix) + 1, Len(url)) ELSE url

\* A normalisation that strips one trailing slash and one scheme; C20 tells it from
\* normalize_url.
normalize_url_once(url) ==
    IF url = <<>> THEN <<>>
    ELSE LET a == strip(lower(url))
             b == IF a # <<>> /\ a[Len(a)] = "/" THEN SubSeq(a, 1, Len(a) - 1) ELSE a
             c == IF RemovePrefix(b, <<"h", "t", "t", "p", ":", "/", "/">>) # b THEN RemovePrefix(b, <<"h", "t", "t", "p", ":", "/", "/">>)
                  ELSE RemovePrefix(b, <<"h", "t", "t", "p", "s", ":", "/", "/">>)
         IN RemovePrefix(c, <<"w", "w", "w", ".">>)

\* _normalize_url(url), lines 15-25.
normalize_url(url) ==
    IF url = <<>> THEN <<>>
    ELSE RemovePrefix(
             RemovePrefix(RemovePrefix(rstrip(strip(lower(url)), "/"), <<"h", "t", "t", "p", ":", "/", "/">>), <<"h", "t", "t", "p", "s", ":", "/", "/">>),
             <<"w", "w", "w", ".">>)

\* n.split("/")[0]: the text before the first slash.
RECURSIVE FirstSegment(_)
FirstSegment(n) ==
    IF n = <<>> \/ Head(n) = "/" THEN <<>> ELSE <<Head(n)>> \o FirstSegment(Tail(n))

\* _match_url(llm_url, result_url), lines 28-34.
match_url(llm_url, result_url) ==
    Bind(<<normalize_url(llm_url), normalize_url(result_url)>>, LAMBDA n :
        IF n[1] = n[2] THEN TRUE ELSE FirstSegment(n[1]) = FirstSegment(n[2]))

(***************************************************************************)
(* prioritize_sources (nodes/prioritize.py), on the models of state.py.    *)
(***************************************************************************)
PRIORITIZE_MAX_RESULTS == 5

\* state.py: the fields a model class declares (no model_config, so no extra ones).
Declared(cls) ==
    IF cls = "AgentState"
    THEN {"query", "history", "results", "answer", "overview", "overview_image", "topics",
          "citations", "final_payload"}
    ELSE {"title", "url", "snippet", "domain", "extended_snippet", "snippet_highlighted",
          "position", "date", "cite", "thumbnail", "breadcrumb", "keywords", "cached_link"}

\* obj.name = v on a pydantic model: a name the class does not declare raises ValueError.
SetAttr(cls, obj, name, v) ==
    IF name \in Declared(cls) THEN Ok((name :> v) @@ obj) ELSE Raise("ValueError")

\* obj.name on a pydantic model: a name the class does not declare raises AttributeError.
GetAttr(cls, obj, name) ==
    IF name \notin Declared(cls) THEN Raise("AttributeError")
    ELSE Ok(IF name \in DOMAIN obj THEN obj[name] ELSE None)

\* not url, for the url of a ranking entry (a JSON string is its characters).
NoUrl(url) ==
    CASE url.k = "null" -> TRUE
      [] url.k = "str" -> url.s = <<>>
      [] OTHER -> ~Truthy(url)

\* ranked_map.get(_normalize_url(r.url), default)
RankOf(r, ranked_map, default) ==
    Bind(normalize_url(r.url), LAMBDA n :
        IF n \in DOMAIN ranked_map THEN ranked_map[n] ELSE default)

\* for r in state.ranked_results: if r.reputability_score is None: r.reputability_score = ...
\* (0.0 in the fallbacks, 11.0 - rank after a ranking), the ranked results being the
\* items at the places of order.
RECURSIVE FillScores(_, _, _)
FillScores(items, order, how) ==
    IF order = <<>> THEN Ok(items)
    ELSE Bind(GetAttr("SearchResult", items[Head(order)], "reputability_score"), LAMBDA got :
            IF got.exc # "" THEN got
            ELSE IF got.val # None THEN FillScores(items, Tail(order), how)
            ELSE Bind(SetAttr("SearchResult", items[Head(order)], "reputability_score",
                              IF how.fallback THEN JFloat(0)
                              ELSE JFloat(11 - RankOf(items[Head(order)], how.map, 10))),
                      LAMBDA w :
                        IF w.exc # "" THEN w
                        ELSE FillScores([items EXCEPT ![Head(order)] = w.val], Tail(order), how)))

\* state.ranked_results = <the items at the places of order>, then the loop that
\* fills the missing scores; the ranked results are the objects of state.results.
AssignRanked(st, items, order, how) ==
    Bind(SetAttr("AgentState", st, "ranked_results", ListV([j \in DOMAIN order |-> items[order[j]]])),
         LAMBDA w :
            IF w.exc # "" THEN [st |-> st, exc |-> w.exc]
            ELSE Bind(FillScores(items, order, how), LAMBDA f :
                    IF f.exc # "" THEN [st |-> w.val, exc |-> f.exc]
                    ELSE [st |-> [w.val EXCEPT
                                     !.results = IF items = <<>> THEN @ ELSE ListV(f.val),
                                     !.ranked_results = ListV([j \in DOMAIN order |-> f.val[order[j]]])],
                          exc |-> ""]))

\* The fallback written five times: results[:PRIORITIZE_MAX_RESULTS], default score 0.0.
RankFallback(st, items) ==
    AssignRanked(st, items, [j \in 1..Min(Len(items), PRIORITIZE_MAX_RESULTS) |-> j],
                 [fallback |-> TRUE])

\* Lines 93-109: the first pass over the entries the LLM returned.
RECURSIVE RankLoop(_, _, _)
RankLoop(ordered, items, ranked_map) ==
    IF ordered = <<>> THEN [exc |-> "", items |-> items, map |-> ranked_map]
    ELSE IF ~IsDict(Head(ordered)) THEN RankLoop(Tail(ordered), items, ranked_map)
    ELSE Bind(<<Get(Head(ordered), "url", None), Get(Head(ordered), "rank", None)>>, LAMBDA e :
        IF e[2].k \notin {"int", "float", "bool"} \/ NoUrl(e[1])
        THEN RankLoop(Tail(ordered), items, ranked_map)
        ELSE IF e[1].k # "str" THEN [exc |-> "AttributeError"]   \* url.lower()
        ELSE Bind({i \in DOMAIN items : match_url(e[1].s, items[i].url)}, LAMBDA hits :
            IF hits = {} THEN RankLoop(Tail(ordered), items, ranked_map)
            ELSE Bind(CHOOSE i \in hits : \A j \in hits : i <= j, LAMBDA i :
                 Bind(SetAttr("SearchResult", items[i], "reputability_score",
                              JFloat(11 - PyInt(e[2]).val)), LAMBDA w :
                    IF w.exc # "" THEN [exc |-> w.exc]
                    ELSE RankLoop(Tail(ordered), [items EXCEPT ![i] = w.val],
                                  (normalize_url(items[i].url) :> PyInt(e[2]).val) @@ ranked_map)))))

\* sorted(results, key=_score): the places of the items, by rank and then by place.
RECURSIVE StableOrder(_, _)
StableOrder(left, key) ==
    IF left = {} THEN <<>>
    ELSE Bind(CHOOSE i \in left : \A j \in left : key[i] < key[j] \/ (key[i] = key[j] /\ i <= j),
              LAMBDA i : <<i>> \o StableOrder(left \ {i}, key))

\* Lines 66-126: the body of the try, given what the LLM call gave.
RankTry(st, items, outcome) ==
    CASE outcome.k = "error" -> [st |-> st, exc |-> "APIError"]
      [] outcome.k = "nochoices" -> [st |-> st, exc |-> "IndexError"]
      [] outcome.k = "nocontent" -> RankFallback(st, items)
      [] outcome.k = "text" -> [st |-> st, exc |-> "JSONDecodeError"]
      [] outcome.k = "json" ->
            IF outcome.v.k \notin {"list", "dict", "str"} THEN [st |-> st, exc |-> "TypeError"]
            ELSE Bind(RankLoop(IF IsList(outcome.v) THEN outcome.v.items ELSE <<>>, items, <<>>),
                      LAMBDA l :
                IF l.exc # "" THEN [st |-> st, exc |-> l.exc]
                ELSE IF DOMAIN l.map = {} THEN RankFallback(st, l.items)
                ELSE AssignRanked(st, l.items,
                         Take(StableOrder(DOMAIN l.items,
                                          [i \in DOMAIN l.items |-> RankOf(l.items[i], l.map, 999)]),
                              PRIORITIZE_MAX_RESULTS),
                         [fallback |-> FALSE, map |-> l.map]))

\* prioritize_sources(state), lines 37-144; both except clauses run the fallback, and
\* what it raises leaves the function.
prioritize_sources(e, st, outcome) ==
    Bind(IF Truthy(st.results) THEN st.results.items ELSE <<>>, LAMBDA results :
        IF results = <<>>
        THEN Bind(SetAttr("AgentState", st, "ranked_results", EmptyList), LAMBDA w :
                [st |-> IF w.exc = "" THEN w.val ELSE st, exc |-> w.exc, sent |-> 0])
        ELSE IF ~e.OPENAI_API_KEY THEN RankFallback(st, results) @@ [sent |-> 0]
        ELSE Bind(RankTry(st, results, outcome), LAMBDA t :
                IF t.exc = "" THEN t @@ [sent |-> 1]
                ELSE RankFallback(t.st, results) @@ [sent |-> 1]))

(***************************************************************************)
(* build_graph (graph.py): the node that follows each node.                *)
(***************************************************************************)
Edge(node) ==
    CASE node = "search" -> "synthesize"
      [] node = "synthesize" -> "enrich_images"
      [] node = "enrich_images" -> "format_output"
      [] node = "format_output" -> "done"

Nodes == {"search", "synthesize", "enrich_images", "format_output"}

\* A node returned or raised: graph.invoke goes on to the next node, or fails.
After(node, exc) == IF exc = "" THEN Edge(node) ELSE "failed"

(***************************************************************************)
(* Inputs: configurations and the outcomes of the external calls.          *)
(***************************************************************************)
Env(bright, serpapi, zone, openai) ==
    [BRIGHT_DATA_API_KEY |-> bright, SERPAPI_API_KEY |-> serpapi,
     SERP_ZONE |-> zone, OPENAI_API_KEY |-> openai]

Envs ==
    {Env(TRUE, TRUE, TRUE, TRUE), Env(FALSE, TRUE, TRUE, TRUE),
     Env(FALSE, FALSE, TRUE, TRUE), Env(TRUE, FALSE, FALSE, TRUE),
     Env(TRUE, FALSE, TRUE, FALSE)}

Query == "what is tla"

\* The organic entry the provider gives for the i-th page.
Organic(i) ==
    Dict("link" :> JStr(Link(i)) @@ "title" :> JStr("Page " \o ToString(i))
         @@ "description" :> JStr("about " \o ToString(i))
         @@ "snippet" :> JStr("more about " \o ToString(i)))

\* An organic entry without a usable link: the key missing, empty, or null.
NoLink(i) ==
    CASE i % 3 = 1 -> Dict("title" :> JStr("Page " \o ToString(i)))
      [] i % 3 = 2 -> Dict("link" :> JStr("") @@ "title" :> JStr("Page " \o ToString(i)))
      [] OTHER -> Dict("link" :> None @@ "title" :> JStr("Page " \o ToString(i)))

\* Every list of at most n entries whose i-th entry is one of the entries table[i].
ListsUpTo(n, table) ==
    UNION {{[i \in 1..m |-> table[i][f[i]]] : f \in [1..m -> DOMAIN table[1]]} : m \in 0..n}

Transport == [k |-> "transport"]     \* the request raised (timeout, connection, HTTP status)
NonJson == [k |-> "nonjson"]         \* the HTTP body is no JSON: response.json() raises
Json(v) == [k |-> "json", v |-> v]   \* response.json() returned v
Wrap(body) == Dict("body" :> body)
Unsent == [k |-> "unsent"]

OrganicKinds(i) == {Organic(i), NoLink(i)}
OrganicTable == [i \in Pages |-> <<Organic(i), NoLink(i)>>]

\* Well-formed provider answers: {"body": {"organic": [...]}}.
WellFormedSerp(n) ==
    {Json(Wrap(Dict("organic" :> ListV(l)))) : l \in ListsUpTo(n, OrganicTable)}

IsWellFormed(o) ==
    /\ o.k = "json" /\ IsDict(o.v) /\ DOMAIN o.v.f = {"body"}
    /\ IsDict(o.v.f["body"]) /\ DOMAIN o.v.f["body"].f = {"organic"}
    /\ IsList(o.v.f["body"].f["organic"])
    /\ \A i \in 1..Len(o.v.f["body"].f["organic"].items) :
          o.v.f["body"].f["organic"].items[i] \in OrganicKinds(i)

\* Answers with an image at some tier, and wrongly shaped ones.
KgSerp == Json(Wrap(Dict("organic" :> ListV(<<Organic(1), Organic(2)>>)
                         @@ "knowledge_graph" :>
                              Dict("image" :> JStr("https://img.example/a.jpg")))))
OddImageSerp == Json(Wrap(Dict("organic" :> ListV(<<Organic(1)>>)
                               @@ "images" :> ListV(<<Dict("original" :> JInt(5))>>))))
MalformedSerp ==
    {Json(EmptyList),                                  \* the answer is a list
     Json(Wrap(JStr("<html>busy</html>"))),            \* body is a str that is no JSON
     Json(Wrap(JStr("[]"))),                           \* body decodes to a list
     Json(Wrap(None)),
     Json(Wrap(Dict("organic" :> None))),
     Json(Wrap(Dict("organic" :> ListV(<<JStr("x")>>)))),
     Json(Wrap(Dict("organic" :> ListV(<<Dict("link" :> JStr(Link(1))
                                              @@ "title" :> JInt(3))>>))))}

\* An answer with one organic result more than synthesize gives to the LLM.
SixResults == Json(Wrap(Dict("organic" :> ListV([i \in 1..(SYNTH_RESULTS + 1) |-> Organic(i)]))))

SerpOutcomes ==
    {Transport, NonJson, Json(EmptyDict), Json(Wrap(JStr("{\"organic\": []}"))), KgSerp,
     OddImageSerp, SixResults}
      \cup WellFormedSerp(2) \cup MalformedSerp

SerpOutcomesFew ==
    {Transport, Json(Wrap(Dict("organic" :> ListV(<<Organic(1), Organic(2), Organic(3)>>))))}

\* LLM answers.  A completion's content is given by the value it decodes to.
Topic(i) == Dict("title" :> JStr("Topic " \o ToString(i)) @@ "content" :> JStr("Detail."))
\* The i-th citation as the prompt asks for it; at even places the id comes as text.
Cite(i) == Dict("id" :> (IF i % 2 = 1 THEN JInt(i) ELSE JStr(ToString(i)))
                @@ "title" :> JStr("Page " \o ToString(i)) @@ "url" :> JStr(Link(i)))
\* Entries the stage must drop: no id (missing or null), an id that is no number,
\* a field of the wrong type (title or url), an entry that is no object.
NoId(i) ==
    IF i % 2 = 1
    THEN Dict("title" :> JStr("Page " \o ToString(i)) @@ "url" :> JStr(Link(i)))
    ELSE Dict("id" :> None @@ "title" :> JStr("Page " \o ToString(i)) @@ "url" :> JStr(Link(i)))
BadId(i) ==
    Dict("id" :> (IF i % 2 = 1 THEN JStr("abc") ELSE ListV(<<JInt(i)>>))
         @@ "title" :> JStr("Page " \o ToString(i)) @@ "url" :> JStr(Link(i)))
BadField(i) ==
    CASE i % 3 = 1 -> Dict("id" :> JInt(i) @@ "title" :> JInt(i) @@ "url" :> JStr(Link(i)))
      [] i % 3 = 2 -> Dict("id" :> JInt(i) @@ "title" :> JStr("Page " \o ToString(i))
                           @@ "url" :> None)
      [] OTHER -> Dict("id" :> JInt(i) @@ "title" :> None @@ "url" :> JStr(Link(i)))
NotAnObject(i) == IF i % 2 = 1 THEN JStr("[" \o ToString(i) \o "]") ELSE JInt(i)
\* Entries with an id the prompt does not ask for: the id of the first entry again,
\* and an id that is zero or negative.
RepeatedId(i) ==
    Dict("id" :> JInt(1) @@ "title" :> JStr("Page " \o ToString(i)) @@ "url" :> JStr(Link(i)))
NonPositiveId(i) ==
    Dict("id" :> (IF i % 2 = 1 THEN JInt(0) ELSE JInt(-1))
         @@ "title" :> JStr("Page " \o ToString(i)) @@ "url" :> JStr(Link(i)))

Synthesis(overview, topics, cits) ==
    Json(Dict("overview" :> overview @@ "topics" :> ListV(topics) @@ "citations" :> ListV(cits)))

CiteTable == [i \in 1..(MaxCits + 1) |-> <<Cite(i), NoId(i)>>]
CiteTableWide ==
    [i \in 1..(MaxLLMCits + 1) |-> <<Cite(i), NoId(i), BadId(i), BadField(i), NotAnObject(i)>>]

\* The topics of the answers of SynthSpec: three well-formed ones and one that is no object.
WideTopics == <<Topic(1), JStr("t"), Topic(2), Topic(3)>>

LLMError == [k |-> "error"]          \* client.chat.completions.create raised
NoChoices == [k |-> "nochoices"]     \* resp.choices is empty
NoContent == [k |-> "nocontent"]     \* message.content is None or ""
NotJson == [k |-> "text"]            \* the content is no JSON

DegradedLLM == {LLMError, NoChoices, NoContent, NotJson, Json(EmptyList), Json(None),
                Json(JStr("ok"))}

LLMOutcomes ==
    DegradedLLM
      \cup {Synthesis(JStr("Overview [1]."), <<Topic(1)>>, l) : l \in ListsUpTo(MaxCits, CiteTable)}
      \cup {Synthesis(JStr("Overview [1]."), <<Topic(1)>>, <<Cite(1), RepeatedId(2)>>),
            Synthesis(JStr("Overview [0]."), <<Topic(1)>>, <<NonPositiveId(1), NonPositiveId(2)>>)}
      \cup {Synthesis(JStr("Overview [6]."), <<Topic(1)>>, <<Cite(SYNTH_RESULTS + 1)>>)}
      \cup {Json(EmptyDict), Synthesis(JInt(5), <<Topic(1)>>, <<Cite(1)>>),
            Synthesis(ListV(<<JStr("Part one.")>>), <<Topic(1)>>, <<Cite(1)>>),
            Json(Dict("answer" :> JStr("Old answer.") @@ "topics" :> JStr("none")
                      @@ "citations" :> JStr("none")))}

\* Image-search answers.
Images(urls) ==
    Json(Wrap(Dict("images" :> ListV([i \in 1..Len(urls) |-> Dict("original" :> JStr(urls[i]))]))))

ImageOutcomes ==
    {Transport, Json(EmptyList), Images(<<"https://en.wikipedia.org/wiki/X">>),
     Images(<<"https://en.wikipedia.org/wiki/X", "https://img.example/a.jpg">>)}
DomainOutcomes == {Transport, Images(<<>>), Images(<<"https://img.example/b.png">>)}
OverviewImageOutcomes ==
    {Transport, Json(EmptyList), Images(<<>>), Images(<<"https://img.example/c.gif">>)}

(***************************************************************************)
(* The pipeline as a state machine.                                        *)
(***************************************************************************)
NoCalls == [search |-> 0, llm |-> 0, overview_image |-> 0]
\* No helper function is called on its own in a run of the pipeline.
NoCall == [fn |-> "none"]
NoRuns == [n \in Nodes |-> 0]

Init ==
    /\ pc = "search"
    /\ env \in Envs
    /\ state = AgentState(Query)
    /\ serp = Unsent
    /\ llm = Unsent
    /\ calls = NoCalls
    /\ runs = NoRuns
    /\ pool = <<>>
    /\ escaped = ""
    /\ call = NoCall

\* graph node "search": one call of search(state), the provider answering o.
SearchOn(o) ==
    /\ pc = "search"
    /\ \E r \in {search(env, state, o)} :
          /\ state' = r.st
          /\ serp' = IF r.sent = 0 THEN Unsent ELSE o
          /\ calls' = [calls EXCEPT !.search = @ + r.sent]
          /\ escaped' = r.exc
          /\ pc' = After("search", r.exc)
    /\ runs' = [runs EXCEPT !["search"] = @ + 1]
    /\ UNCHANGED <<env, llm, pool, call>>

Search == \E o \in SerpOutcomes : SearchOn(o)

\* graph node "synthesize": one call of synthesize(state), the LLM answering o.
SynthesizeOn(o) ==
    /\ pc = "synthesize"
    /\ \E r \in {synthesize(env, state, o)} :
          /\ state' = r.st
          /\ llm' = IF r.sent = 0 THEN Unsent ELSE o
          /\ calls' = [calls EXCEPT !.llm = @ + r.sent]
          /\ escaped' = r.exc
          /\ pc' = After("synthesize", r.exc)
    /\ runs' = [runs EXCEPT !["synthesize"] = @ + 1]
    /\ UNCHANGED <<env, serp, pool, call>>

Synthesize == \E o \in LLMOutcomes : SynthesizeOn(o)

\* graph node "enrich_images", lines 263-347: up to the submission of the futures.
\* With nothing to fetch the node returns at once (lines 279, 302, 322).
EnrichImages ==
    /\ pc = "enrich_images"
    /\ runs' = [runs EXCEPT !["enrich_images"] = @ + 1]
    /\ IF ~ImageCreds(env)
       THEN /\ pc' = After("enrich_images", "")
            /\ UNCHANGED <<state, calls, pool, escaped>>
       ELSE \E o \in OverviewImageOutcomes : \E r \in {OverviewBackfill(state, o)} :
              LET futures == Submit(CitationsOf(r.st))
                  waits == r.exc = "" /\ \E i \in DOMAIN futures : futures[i].ph = "queued"
              IN /\ state' = r.st
                 /\ calls' = [calls EXCEPT !.overview_image = @ + r.sent]
                 /\ escaped' = r.exc
                 /\ pool' = IF waits THEN futures ELSE <<>>
                 /\ pc' = IF waits THEN "fan_out" ELSE After("enrich_images", r.exc)
    /\ UNCHANGED <<env, serp, llm, call>>

\* A pool thread takes a queued task (at most max_workers threads exist).
WorkerPick(i) ==
    /\ pc = "fan_out"
    /\ pool[i].ph = "queued"
    /\ Cardinality(Running(pool)) < MaxWorkers(pool)
    /\ pool' = [pool EXCEPT ![i].ph = "running"]
    /\ UNCHANGED <<pc, env, state, serp, llm, calls, runs, escaped, call>>

\* The worker's title+context request and what it makes of the answer.
WorkerCompositeOn(i, o) ==
    /\ pc = "fan_out"
    /\ pool[i].ph = "running"
    /\ \E t \in {CompositeTier(state.citations.items[i].url, o)} :
          pool' = [pool EXCEPT
              ![i].composite = @ + 1, ![i].tier1 = o,
              ![i].ph = IF t.next = "fallback" THEN "fallback" ELSE "finished",
              ![i].result = CASE t.next = "return" -> Ok(t.val)
                              [] t.next = "raise" -> Raise(t.exc)
                              [] OTHER -> @]
    /\ UNCHANGED <<pc, env, state, serp, llm, calls, runs, escaped, call>>

WorkerComposite(i) == \E o \in ImageOutcomes : WorkerCompositeOn(i, o)

\* The worker's domain-name request.
WorkerDomain(i) ==
    /\ pc = "fan_out"
    /\ pool[i].ph = "fallback"
    /\ \E o \in DomainOutcomes :
          pool' = [pool EXCEPT ![i].domain = @ + 1, ![i].tier2 = o, ![i].ph = "finished",
                               ![i].result = Ok(DomainTier(o))]
    /\ UNCHANGED <<pc, env, state, serp, llm, calls, runs, escaped, call>>

\* as_completed hands the main thread a finished future (lines 350-361).
Collect(i) ==
    /\ pc = "fan_out"
    /\ pool[i].ph = "finished"
    /\ state' = ApplyResult(state, i, pool[i].result)
    /\ pool' = [pool EXCEPT ![i].ph = "collected"]
    /\ UNCHANGED <<pc, env, serp, llm, calls, runs, escaped, call>>

\* A pool that is left as soon as no task is queued, finished or not; C2 tells it
\* from AllCollected.
AllPicked(p) == \A i \in DOMAIN p : p[i].ph # "queued"

\* Every future was handed over; the with block shuts the pool down and the node returns.
AllCollected(p) == \A i \in DOMAIN p : p[i].ph \in {"has_image", "collected"}

EnrichReturn ==
    /\ pc = "fan_out"
    /\ AllCollected(pool)
    /\ pc' = After("enrich_images", "")
    /\ UNCHANGED <<env, state, serp, llm, calls, runs, pool, escaped, call>>

\* graph node "format_output": one call of format_output(state).
FormatOutput ==
    /\ pc = "format_output"
    /\ \E r \in {format_output(state, JInt(runs["format_output"] + 1))} :
          /\ state' = r.st
          /\ escaped' = r.exc
          /\ pc' = After("format_output", r.exc)
    /\ runs' = [runs EXCEPT !["format_output"] = @ + 1]
    /\ UNCHANGED <<env, serp, llm, calls, pool, call>>

Fanout ==
    \E i \in DOMAIN pool : WorkerPick(i) \/ WorkerComposite(i) \/ WorkerDomain(i) \/ Collect(i)

Next ==
    \/ Search
    \/ Synthesize
    \/ EnrichImages
    \/ Fanout
    \/ EnrichReturn
    \/ FormatOutput

Spec == Init /\ [][Next]_vars

\* search alone, over every well-formed provider answer up to MaxOrganic entries.
SearchFails == SearchOn(Transport)
SearchAny ==
    /\ pc = "search" /\ ApiKey(env) /\ env.SERP_ZONE      \* a request is sent
    /\ \E m \in 0..MaxOrganic : \E f \in [1..m -> 1..2] :
        \E o \in {Json(Wrap(Dict("organic" :> ListV(<<>> \o [i \in 1..m |-> OrganicTable[i][f[i]]]))))} :
            SearchOn(o)
\* search on answers that have, or lack, an image at each of the three places the
\* overview image is looked for, well shaped or not.
SearchTiers ==
    /\ pc = "search" /\ ApiKey(env) /\ env.SERP_ZONE      \* a request is sent
    /\ \E kg \in {<<>>, "knowledge_graph" :> JStr("none"),
                   "knowledge_graph" :> Dict("image" :> JInt(5)),
                   "knowledge_graph" :> Dict("image" :> JStr("https://img.example/kg.jpg"))} :
       \E im \in {<<>>, "images" :> JStr("none"), "images" :> ListV(<<JStr("x")>>),
                   "images" :> ListV(<<Dict("title" :> JStr("t"))>>),
                   "images" :> ListV(<<Dict("link" :> JStr("https://img.example/im.jpg")
                                           @@ "thumbnail" :> JStr("https://img.example/t.jpg")),
                                      Dict("original" :> JStr("https://img.example/2.jpg"))>>)} :
       \E top \in {<<>>, "organic" :> ListV(<<Organic(1)>>),
                    "organic" :> ListV(<<Dict(Organic(1).f @@ "thumbnail" :>
                                                  JStr("https://img.example/th.jpg")),
                                         Organic(2)>>),
                    "organic" :> ListV(<<Dict(Organic(1).f @@ "thumbnail" :> JStr("")
                                                  @@ "og_image" :>
                                                  JStr("https://img.example/og.jpg"))>>),
                    "organic" :> ListV(<<JStr("x")>>),
                    "organic" :> Dict("0" :> Organic(1))} :
          SearchOn(Json(Wrap(Dict(kg @@ im @@ top))))
SearchNext == SearchFails \/ SearchAny \/ SearchTiers
SearchSpec == Init /\ [][SearchNext]_vars

\* synthesize, run after search or called on a fresh state, over every LLM citation
\* list up to MaxLLMCits entries.
SynthInit ==
    /\ pc \in {"search", "synthesize"}
    /\ env \in Envs
    /\ state = AgentState(Query)
    /\ serp = Unsent
    /\ llm = Unsent
    /\ calls = NoCalls
    /\ runs = NoRuns
    /\ pool = <<>>
    /\ escaped = ""
    /\ call = NoCall
SearchFew == \E o \in SerpOutcomesFew : SearchOn(o)
SynthesizeFails == SynthesizeOn(LLMError)
SynthesizeAny ==
    /\ pc = "synthesize" /\ env.OPENAI_API_KEY /\ TopResults(state) # <<>>   \* a request is sent
    /\ \E m \in 0..MaxLLMCits : \E f \in [1..m -> 1..5] :
        \E o \in {Synthesis(JStr("Overview [1]."), WideTopics,
                            <<>> \o [i \in 1..m |-> CiteTableWide[i][f[i]]])} :
            SynthesizeOn(o)
SynthNext == SearchFew \/ SynthesizeFails \/ SynthesizeAny
SynthSpec == SynthInit /\ [][SynthNext]_vars

\* enrich_images called on a state whose citations a caller built: up to MaxEnrich
\* citations, each without an image (null at odd places, blank at even ones) or with
\* one, the overview image missing or present, and the query given or empty.
MaxEnrich == 3
StoredCitation(i, image) ==
    [id |-> i, title |-> "Page " \o ToString(i), url |-> Link(i), image |-> image,
     extended_snippet |-> None]
EnrichTable ==
    [i \in 1..MaxEnrich |->
        <<StoredCitation(i, IF i % 2 = 1 THEN None ELSE JStr(" ")),
          StoredCitation(i, JStr("https://img.example/own.png"))>>]
EnrichEnvs == {Env(TRUE, TRUE, TRUE, TRUE), Env(FALSE, FALSE, TRUE, TRUE),
               Env(TRUE, FALSE, FALSE, TRUE)}
EnrichInit ==
    /\ pc = "enrich_images"
    /\ env \in EnrichEnvs
    /\ \E m \in 0..MaxEnrich : \E f \in [1..m -> 1..2] :
        \E img \in {None, JStr("https://img.example/o.png")} : \E q \in {Query, ""} :
            state = [AgentState(q) EXCEPT
                        !.citations = ListV(<<>> \o [i \in 1..m |-> EnrichTable[i][f[i]]]),
                        !.overview_image = img]
    /\ serp = Unsent
    /\ llm = Unsent
    /\ calls = NoCalls
    /\ runs = NoRuns
    /\ pool = <<>>
    /\ escaped = ""
    /\ call = NoCall
EnrichNext == EnrichImages \/ Fanout \/ EnrichReturn
EnrichSpec == EnrichInit /\ [][EnrichNext]_vars

\* The pool of enrich_images on up to MaxPool citations, each with or without an
\* image, every request of a worker timing out.
MaxPool == 6
PoolInit ==
    /\ pc = "enrich_images"
    /\ env = Env(TRUE, TRUE, TRUE, TRUE)
    /\ \E m \in 0..MaxPool : \E f \in [1..m -> BOOLEAN] :
            state = [AgentState(Query) EXCEPT
                        !.citations = ListV(<<>> \o [i \in 1..m |->
                            StoredCitation(i, IF f[i] THEN JStr("https://img.example/own.png")
                                              ELSE None)]),
                        !.overview_image = JStr("https://img.example/o.png")]
    /\ serp = Unsent
    /\ llm = Unsent
    /\ calls = NoCalls
    /\ runs = NoRuns
    /\ pool = <<>>
    /\ escaped = ""
    /\ call = NoCall
PoolFanout ==
    \E i \in DOMAIN pool : WorkerPick(i) \/ WorkerCompositeOn(i, Transport) \/ Collect(i)
PoolNext == EnrichImages \/ PoolFanout \/ EnrichReturn
PoolSpec == PoolInit /\ [][PoolNext]_vars

\* _normalize_url called on a URL written with up to MaxUrlLen of these pieces:
\* schemes, "www.", a host with a path, a slash, a blank.
MaxUrlLen == 4
UrlPieces ==
    <<<<"h", "t", "t", "p", ":", "/", "/">>,
      <<"h", "t", "t", "p", "s", ":", "/", "/">>,
      <<"H", "T", "T", "P", ":", "/", "/">>,
      <<"w", "w", "w", ".">>,
      <<"W", "W", "W", ".">>,
      <<"E", "x", "a", "m", "p", "l", "e", ".", "c", "o", "m", "/", "P", "a", "t", "h">>,
      <<"/">>,
      <<" ">>>>
RECURSIVE Written(_)
Written(parts) == IF parts = <<>> THEN <<>> ELSE UrlPieces[Head(parts)] \o Written(Tail(parts))
NormInit ==
    /\ pc = "call"
    /\ env = Env(TRUE, TRUE, TRUE, TRUE)
    /\ state = AgentState(Query)
    /\ serp = Unsent
    /\ llm = Unsent
    /\ calls = NoCalls
    /\ runs = NoRuns
    /\ pool = <<>>
    /\ escaped = ""
    /\ \E m \in 0..MaxUrlLen : \E parts \in [1..m -> 1..Len(UrlPieces)] :
            call = [fn |-> "_normalize_url", parts |-> parts, url |-> Written(parts),
                    ret |-> <<>>]
NormalizeCall ==
    /\ pc = "call"
    /\ call.fn = "_normalize_url"
    /\ call' = [call EXCEPT !.ret = normalize_url(call.url)]
    /\ pc' = "returned"
    /\ UNCHANGED <<env, state, serp, llm, calls, runs, pool, escaped>>
NormSpec == NormInit /\ [][NormalizeCall]_vars

\* _match_url called on two URLs, each written as scheme, "www.", host, path and
\* trailing slash, any of them but the host possibly missing.
UrlShapes ==
    [scheme : {<<>>, <<"h", "t", "t", "p", ":", "/", "/">>,
               <<"h", "t", "t", "p", "s", ":", "/", "/">>,
               <<"H", "T", "T", "P", ":", "/", "/">>, <<"f", "t", "p", ":", "/", "/">>,
               <<"/", "/">>},
     www : {<<>>, <<"w", "w", "w", ".">>},
     host : {<<"a", ".", "i", "o">>, <<"b", ".", "i", "o">>},
     path : {<<>>, <<"/", "p">>, <<"/", "q">>},
     slash : {<<>>, <<"/">>}]
WrittenUrl(u) == u.scheme \o u.www \o u.host \o u.path \o u.slash
MatchInit ==
    /\ pc = "call"
    /\ env = Env(TRUE, TRUE, TRUE, TRUE)
    /\ state = AgentState(Query)
    /\ serp = Unsent
    /\ llm = Unsent
    /\ calls = NoCalls
    /\ runs = NoRuns
    /\ pool = <<>>
    /\ escaped = ""
    /\ \E a \in UrlShapes : \E b \in UrlShapes :
            call = [fn |-> "_match_url", a |-> a, b |-> b, llm_url |-> WrittenUrl(a),
                    result_url |-> WrittenUrl(b), ret |-> FALSE]
MatchCall ==
    /\ pc = "call"
    /\ call.fn = "_match_url"
    /\ call' = [call EXCEPT !.ret = match_url(call.llm_url, call.result_url)]
    /\ pc' = "returned"
    /\ UNCHANGED <<env, state, serp, llm, calls, runs, pool, escaped>>
MatchSpec == MatchInit /\ [][MatchCall]_vars

\* prioritize_sources called on a state with up to MaxRanked results of distinct
\* hosts (the fourth shares the host of the third), and an LLM that fails or answers
\* with up to MaxRankEntries entries: a result's host with a rank, a host no result
\* has, a rank or a url of the wrong type, or no object.
MaxRanked == 6
MaxRankEntries == 2
RankedHost(i) == <<"s", ToString(IF i = 4 THEN 3 ELSE i), ".", "i", "o">>
RankedResult(i) ==
    [title |-> "Page " \o ToString(i),
     url |-> <<"h", "t", "t", "p", "s", ":", "/", "/">> \o RankedHost(i)
                \o <<"/", "p", ToString(i)>>,
     snippet |-> "", domain |-> Host(i), extended_snippet |-> None, thumbnail |-> None]
RankEntry(url, rank) == Dict("url" :> url @@ "rank" :> rank)
RankEntries ==
    {RankEntry(JStr(RankedHost(i)), JInt(r)) : i \in 1..3, r \in 1..2}
      \cup {RankEntry(JStr(<<"z", ".", "i", "o">>), JInt(1)),
            RankEntry(JStr(RankedHost(1)), JStr("1")),
            RankEntry(JInt(5), JInt(1)),
            JStr("s1.io")}
RankOutcomes ==
    {LLMError, NoChoices, NoContent, NotJson, Json(None), Json(EmptyDict)}
      \cup UNION {{Json(ListV(l)) : l \in [1..m -> RankEntries]} : m \in 0..MaxRankEntries}
PrioritizeInit ==
    /\ pc = "call"
    /\ env \in {Env(TRUE, TRUE, TRUE, TRUE), Env(TRUE, TRUE, TRUE, FALSE)}
    /\ \E n \in 0..MaxRanked :
           /\ state = [AgentState(Query) EXCEPT
                          !.results = IF n = 0 THEN None ELSE ListV([i \in 1..n |-> RankedResult(i)])]
           /\ call = [fn |-> "prioritize_sources", n |-> n]
    /\ serp = Unsent
    /\ llm = Unsent
    /\ calls = NoCalls
    /\ runs = NoRuns
    /\ pool = <<>>
    /\ escaped = ""
PrioritizeCall ==
    /\ pc = "call"
    /\ call.fn = "prioritize_sources"
    /\ \E o \in RankOutcomes : \E r \in {prioritize_sources(env, state, o)} :
          /\ state' = r.st
          /\ escaped' = r.exc
          /\ llm' = IF r.sent = 1 THEN o ELSE llm
          /\ calls' = [calls EXCEPT !.llm = @ + r.sent]
          /\ pc' = IF r.exc = "" THEN "returned" ELSE "failed"
    /\ UNCHANGED <<env, serp, runs, pool, call>>
PrioritizeSpec == PrioritizeInit /\ [][PrioritizeCall]_vars

\* format_output called once more on the state it returned, no other node in between.
FormatOutputAgain ==
    /\ pc = "done"
    /\ \E r \in {format_output(state, JInt(runs["format_output"] + 1))} :
          /\ state' = r.st
          /\ escaped' = r.exc
          /\ pc' = IF r.exc = "" THEN "done_again" ELSE "failed"
    /\ runs' = [runs EXCEPT !["format_output"] = @ + 1]
    /\ UNCHANGED <<env, serp, llm, calls, pool, call>>
FormatNext == Next \/ FormatOutputAgain
FormatSpec == Init /\ [][FormatNext]_vars

(***************************************************************************)
(* Properties.                                                             *)
(***************************************************************************)
NoCreds == ~ApiKey(env) \/ ~env.SERP_ZONE
Active(p) == {i \in DOMAIN p : p[i].ph \in {"queued", "running", "fallback", "finished"}}
RunsOf(a, b, c, d) ==
    [n \in Nodes |-> CASE n = "search" -> a [] n = "synthesize" -> b
                       [] n = "enrich_images" -> c [] n = "format_output" -> d]

\* C1 (as stated): whatever the external calls return, no exception leaves a stage
\* and a finished run has final_payload set.
C1_NoStageRaises ==
    /\ escaped = ""
    /\ pc # "failed"
    /\ pc = "done" => state.final_payload # None

\* C2: the nodes are entered in the order search, synthesize, enrich_images,
\* format_output, none more than once, each only after the one before it returned;
\* a finished run has entered each exactly once, a run that an exception ended has
\* entered a prefix of the order; format_output is never entered, and the run never
\* ends, while a future of the enrichment pool is queued, running or uncollected.
C2_StagesInOrder ==
    /\ pc = "search" => runs = RunsOf(0, 0, 0, 0)
    /\ pc = "synthesize" => runs = RunsOf(1, 0, 0, 0)
    /\ pc = "enrich_images" => runs = RunsOf(1, 1, 0, 0)
    /\ pc = "fan_out" => runs = RunsOf(1, 1, 1, 0)
    /\ pc = "format_output" => runs = RunsOf(1, 1, 1, 0) /\ Active(pool) = {}
    /\ pc = "done" => runs = RunsOf(1, 1, 1, 1) /\ Active(pool) = {}
    /\ pc = "failed" => runs \in {RunsOf(1, 0, 0, 0), RunsOf(1, 1, 0, 0),
                                  RunsOf(1, 1, 1, 0), RunsOf(1, 1, 1, 1)}
    /\ pc \in {"search", "synthesize", "enrich_images"} => pool = <<>>

\* A finished run in which two enrichment workers ran and were collected.
C2_Witness ==
    /\ pc = "done"
    /\ runs = RunsOf(1, 1, 1, 1)
    /\ Cardinality({i \in DOMAIN pool : pool[i].ph = "collected"}) >= 2

\* C3: at most one search request, one LLM request, one overview-image request, and
\* per citation one title+context request and one domain request; a call that failed
\* in transport was issued exactly once and its stage took the fallback (empty
\* results; the four synthesis outputs reset; no image for the citation, and no
\* domain request after a failed title+context request).
C3_NoRetry ==
    /\ calls.search <= 1 /\ calls.llm <= 1 /\ calls.overview_image <= 1
    /\ \A i \in DOMAIN pool : pool[i].composite <= 1 /\ pool[i].domain <= 1
    /\ serp # Unsent => calls.search = 1
    /\ serp = Transport => state.results = EmptyList
    /\ llm # Unsent => calls.llm = 1
    /\ llm = LLMError => state.overview = JStr("") /\ state.citations = EmptyList
    /\ \A i \in DOMAIN pool :
          /\ pool[i].tier1 = Transport =>
                pool[i].composite = 1 /\ pool[i].domain = 0 /\ pool[i].result = Ok(None)
          /\ pool[i].tier2 = Transport =>
                pool[i].composite = 1 /\ pool[i].domain = 1 /\ pool[i].result = Ok(None)

\* A finished run in which a worker's title+context request failed in transport and
\* another worker's domain request failed in transport.
C3_Witness ==
    /\ pc = "done"
    /\ \E i, j \in DOMAIN pool : pool[i].tier1 = Transport /\ pool[j].tier2 = Transport

\* search has run and returned to the graph (no exception left it).
SearchReturned == runs["search"] = 1 /\ (runs["synthesize"] = 0 => pc = "synthesize")

\* C4 (as stated): once search has returned with empty results, no LLM request and
\* no image-search request is issued, the run does not fail, and a finished run's
\* final_payload has an empty overview and no sources.
C4_EmptyResultsShortCircuit ==
    (SearchReturned /\ state.results = EmptyList) =>
        /\ calls.llm = 0
        /\ calls.overview_image = 0
        /\ \A i \in DOMAIN pool : pool[i].composite = 0 /\ pool[i].domain = 0
        /\ pc # "failed"
        /\ pc = "done" =>
              /\ state.final_payload # None
              /\ state.final_payload.overview = JStr("")
              /\ state.final_payload.sources = <<>>

\* The organic list of a well-formed provider answer, and the places in its first
\* SEARCH_LIMIT entries that carry a link.
OrganicOf(o) == o.v.f["body"].f["organic"].items
HasLink(r) == "link" \in DOMAIN r.f /\ r.f["link"] \notin {None, JStr("")}
Linked(o) == {i \in 1..Min(Len(OrganicOf(o)), 10) : HasLink(OrganicOf(o)[i])}
\* The j-th smallest member of a set of places.
Nth(places, j) == CHOOSE i \in places : Cardinality({k \in places : k <= i}) = j

\* C5: after search on a well-formed provider answer, results has at most 10
\* entries, each with a non-empty url; they are the linked entries among the first
\* 10 organic entries, one result per such entry, in the provider's order; no entry
\* without a link is among them.
C5_ResultsBounded ==
    (runs["search"] = 1 /\ serp # Unsent /\ IsWellFormed(serp)) =>
        LET rs == state.results.items
        IN /\ escaped = ""
           /\ Len(rs) <= 10
           /\ \A j \in 1..Len(rs) : rs[j].url # ""
           /\ Len(rs) = Cardinality(Linked(serp))
           /\ \A j \in 1..Len(rs) :
                 rs[j].url = OrganicOf(serp)[Nth(Linked(serp), j)].f["link"].s
           /\ \A j \in 1..Len(rs) : \A i \in 1..Len(OrganicOf(serp)) :
                 rs[j].title = OrganicOf(serp)[i].f["title"].s => HasLink(OrganicOf(serp)[i])

\* search has returned on an answer of more than 10 organic entries, one of the first
\* 10 without a link and the 11th with one.
C5_Witness ==
    /\ runs["search"] = 1 /\ serp # Unsent /\ IsWellFormed(serp)
    /\ Len(OrganicOf(serp)) > 10
    /\ HasLink(OrganicOf(serp)[11])
    /\ \E i \in 1..10 : ~HasLink(OrganicOf(serp)[i])
    /\ Len(state.results.items) = Cardinality(Linked(serp))
    /\ Len(state.results.items) < 10

\* C6: once search has run with the API key or the zone missing, or with the
\* provider request failing in transport, results is the empty list and search
\* returned (the graph went on to synthesize, no exception left the node); with the
\* key or the zone missing no provider request was issued.
C6_SearchFailsSoft ==
    (runs["search"] = 1 /\ (NoCreds \/ serp = Transport)) =>
        /\ state.results = EmptyList
        /\ runs["synthesize"] = 0 => pc = "synthesize" /\ escaped = ""
        /\ NoCreds => calls.search = 0 /\ serp = Unsent
        /\ serp = Transport => calls.search = 1

\* search has just returned after a transport failure of its one request.
C6_Witness ==
    /\ runs["search"] = 1 /\ runs["synthesize"] = 0
    /\ ~NoCreds /\ serp = Transport /\ calls.search = 1
    /\ state.results = EmptyList /\ pc = "synthesize"

\* C7: once synthesize has run with the LLM credential missing, or with results
\* empty or absent, no LLM request was issued, overview and answer are "", topics
\* and citations are empty lists, and synthesize returned without raising.
C7_SynthesizeWithoutInput ==
    (runs["synthesize"] = 1 /\ (~env.OPENAI_API_KEY \/ ~Truthy(state.results))) =>
        /\ calls.llm = 0 /\ llm = Unsent
        /\ state.overview = JStr("") /\ state.answer = JStr("")
        /\ state.topics = EmptyList /\ state.citations = EmptyList
        /\ escaped = "" /\ pc = "enrich_images"

\* synthesize has run with the credential set and results absent (never searched).
C7_Witness ==
    /\ runs["synthesize"] = 1 /\ env.OPENAI_API_KEY /\ state.results = None
    /\ calls.llm = 0 /\ state.overview = JStr("") /\ state.citations = EmptyList

\* C8: once synthesize has run and its LLM request raised, gave no choice or no
\* content, gave content that is no JSON, or gave JSON that is no object, overview
\* and answer are "" and topics and citations are empty lists, all four together;
\* synthesize did not raise.
C8_FallbackResetsAll ==
    (runs["synthesize"] = 1 /\ llm \in DegradedLLM) =>
        /\ calls.llm = 1
        /\ state.overview = JStr("") /\ state.answer = JStr("")
        /\ state.topics = EmptyList /\ state.citations = EmptyList
        /\ runs["enrich_images"] = 0 => pc = "enrich_images" /\ escaped = ""

\* synthesize has just returned after the LLM answered with JSON that is a list.
C8_Witness ==
    /\ runs["synthesize"] = 1 /\ runs["enrich_images"] = 0
    /\ llm = Json(EmptyList) /\ Truthy(state.results)
    /\ state.overview = JStr("") /\ state.citations = EmptyList

\* The citation list the LLM proposed in a parsed answer, and the entries of it that
\* are valid: an object with an id that is not null and converts to an integer, and
\* with a title and a url that are strings where given.
Parsed == runs["synthesize"] = 1 /\ llm.k = "json" /\ IsDict(llm.v)
Proposed ==
    IF /\ llm.k = "json" /\ IsDict(llm.v)
       /\ "citations" \in DOMAIN llm.v.f /\ IsList(llm.v.f["citations"])
    THEN llm.v.f["citations"].items ELSE <<>>
Coercible(id) ==
    \/ id.k \in {"int", "float", "bool"}
    \/ id.k = "str" /\ \E n \in 0..(MaxLLMCits + 1) : id.s = ToString(n)
ValidEntry(c) ==
    /\ IsDict(c)
    /\ "id" \in DOMAIN c.f /\ c.f["id"] # None /\ Coercible(c.f["id"])
    /\ "title" \in DOMAIN c.f => IsStr(c.f["title"])
    /\ "url" \in DOMAIN c.f => IsStr(c.f["url"])
ValidPlaces == {i \in 1..Len(Proposed) : ValidEntry(Proposed[i])}
\* Citation j of the state is the one made of the proposed entry at place i.
MadeOf(j, i) ==
    /\ state.citations.items[j].url = Proposed[i].f["url"].s
    /\ state.citations.items[j].title = Proposed[i].f["title"].s
    /\ state.citations.items[j].id = i
\* The topics and the overview of the answers of SynthSpec, as synthesize keeps them.
KeptTopics ==
    ListV(<<[title |-> "Topic 1", content |-> "Detail."],
            [title |-> "Topic 2", content |-> "Detail."]>>)
KeptResponse ==
    /\ state.overview = llm.v.f["overview"] /\ state.answer = llm.v.f["overview"]
    /\ "topics" \in DOMAIN llm.v.f /\ llm.v.f["topics"] = ListV(WideTopics) => state.topics = KeptTopics

\* C9 (as stated): in a parsed answer every valid entry of the proposed list appears
\* in citations, whatever invalid entries stand beside it, and the overview and the
\* topics of the answer are kept.
C9_EveryValidSiblingKept ==
    Parsed =>
        /\ \A i \in ValidPlaces : \E j \in 1..Len(state.citations.items) : MadeOf(j, i)
        /\ KeptResponse

\* C9 (amended): in a parsed answer an invalid entry is dropped alone: every valid
\* entry that is among the first 5 valid entries of the proposed list appears in
\* citations, no invalid entry does, and the overview and the topics of the answer
\* are kept.
C9_InvalidDroppedAlone ==
    Parsed =>
        /\ \A i \in ValidPlaces :
              Cardinality({k \in ValidPlaces : k <= i}) <= 5 =>
                  \E j \in 1..Len(state.citations.items) : MadeOf(j, i)
        /\ \A j \in 1..Len(state.citations.items) : \E i \in ValidPlaces : MadeOf(j, i)
        /\ KeptResponse

\* A parsed answer whose list has an invalid entry of each kind between two valid
\* ones, both of which are in citations, with the answer's overview and topics.
C9_Witness ==
    /\ Parsed /\ Len(Proposed) = 6
    /\ ValidPlaces = {1, 6}
    /\ Proposed[2] = NoId(2) /\ Proposed[3] = BadId(3)
    /\ Proposed[4] = BadField(4) /\ Proposed[5] = NotAnObject(5)
    /\ Len(state.citations.items) = 2 /\ MadeOf(1, 1) /\ MadeOf(2, 6)
    /\ state.topics = KeptTopics

\* C10: after synthesize on a parsed answer, citations has at most 5 entries and is
\* the first 5 (or all, when fewer) valid entries of the proposed list, in the
\* list's order: citation j is made of the j-th valid entry.
C10_FirstFiveInOrder ==
    Parsed =>
        /\ Len(state.citations.items) <= 5
        /\ Len(state.citations.items) = Min(Cardinality(ValidPlaces), 5)
        /\ \A j \in 1..Len(state.citations.items) : MadeOf(j, Nth(ValidPlaces, j))

\* A parsed answer with more than five valid entries, of which the first five are
\* kept in their order and the later ones are not.
C10_Witness ==
    /\ Parsed /\ Cardinality(ValidPlaces) > 5
    /\ Len(state.citations.items) = 5
    /\ \A j \in 1..5 : MadeOf(j, j)

\* C11 (as stated): after synthesize every citation's id is a positive integer and
\* no two citations have the same id.
C11_IdsPositiveAndUnique ==
    (runs["synthesize"] = 1 /\ IsList(state.citations)) =>
        LET cs == state.citations.items
        IN /\ \A j \in 1..Len(cs) : cs[j].id > 0
           /\ \A j, k \in 1..Len(cs) : j # k => cs[j].id # cs[k].id

\* The integer an id of a valid entry stands for.
IntOfId(id) ==
    CASE id.k = "int" -> id.n
      [] id.k = "float" -> id.whole
      [] id.k = "bool" -> (IF id.b THEN 1 ELSE 0)
      [] id.k = "str" -> CHOOSE n \in 0..(MaxLLMCits + 1) : id.s = ToString(n)
\* format_output's try block raised: "+=" of a topic line onto an overview that is
\* neither a string nor a list.
AssemblyRaised ==
    /\ Truthy(OverviewOf(state)) /\ OverviewOf(state).k \notin {"str", "list"}
    /\ TopicsOfState(state) # <<>>

\* C12: in a finished run whose payload was assembled without an exception,
\* final_payload.sources has one entry per citation of state.citations, in the same
\* order, each with exactly the keys id, title, url, image, extended_snippet and the
\* citation's values; every id in it is the integer of the id of a valid entry the
\* LLM proposed; with 2 valid proposed entries it has exactly 2 entries.
C12_SourcesAreCitations ==
    (pc = "done" /\ ~AssemblyRaised) =>
        LET sources == state.final_payload.sources
            cs == CitationsOf(state)
        IN /\ Len(sources) = Len(cs)
           /\ \A i \in 1..Len(sources) :
                 /\ DOMAIN sources[i].f = {"id", "title", "url", "image", "extended_snippet"}
                 /\ sources[i].f["id"] = JInt(cs[i].id)
                 /\ sources[i].f["title"] = JStr(cs[i].title)
                 /\ sources[i].f["url"] = JStr(cs[i].url)
                 /\ sources[i].f["image"] = cs[i].image
                 /\ sources[i].f["extended_snippet"] = cs[i].extended_snippet
                 /\ \E k \in ValidPlaces : IntOfId(Proposed[k].f["id"]) = sources[i].f["id"].n
           /\ (Len(Proposed) = 2 /\ ValidPlaces = {1, 2}) => Len(sources) = 2

\* A finished run on an LLM answer of two valid citations, one of which got an image:
\* the payload has two sources.
C12_Witness ==
    /\ pc = "done" /\ ~AssemblyRaised
    /\ Len(Proposed) = 2 /\ ValidPlaces = {1, 2}
    /\ Len(state.final_payload.sources) = 2
    /\ state.final_payload.sources[1].f["id"] = JInt(1)
    /\ state.final_payload.sources[2].f["id"] = JInt(2)
    /\ state.final_payload.sources[2].f["image"] # None

\* C19: when the try block of format_output raised, the node still returns: no
\* exception leaves it, the run finishes, and final_payload is the fallback payload,
\* with no sources and with question, overview (state.overview, else state.answer,
\* else ""), overview_image and topics (state.topics, else none) read from the state.
C19_FallbackPayload ==
    (runs["format_output"] = 1 /\ AssemblyRaised) =>
        /\ pc = "done" /\ escaped = ""
        /\ state.final_payload # None
        /\ state.final_payload.sources = <<>>
        /\ state.final_payload.question = state.query
        /\ state.final_payload.overview =
              (IF Truthy(state.overview) THEN state.overview
               ELSE IF Truthy(state.answer) THEN state.answer ELSE JStr(""))
        /\ state.final_payload.overview_image = state.overview_image
        /\ state.final_payload.topics =
              (IF Truthy(state.topics) THEN state.topics.items ELSE <<>>)

\* A run in which the LLM gave the number 5 as overview, one topic and one citation:
\* appending the topic line raised, and the payload has no source although the state
\* has a citation.
C19_Witness ==
    /\ pc = "done" /\ AssemblyRaised
    /\ state.overview = JInt(5)
    /\ Len(CitationsOf(state)) = 1
    /\ state.final_payload.sources = <<>>
    /\ state.final_payload.overview = JInt(5)
    /\ Len(state.final_payload.topics) = 1

RECURSIVE TopicLines(_)
TopicLines(topics) ==
    IF topics = <<>> THEN ""
    ELSE "\n\n" \o Head(topics).title \o ": " \o Head(topics).content \o TopicLines(Tail(topics))

\* C18 (as stated): a run of format_output appends exactly one assistant turn to
\* history when an overview exists (state.overview, else state.answer, non-empty) and
\* leaves history unchanged otherwise; for a text overview the turn's content is the
\* overview followed by each topic's "title: content"; every other step leaves
\* history as it is, so no entry is ever modified or removed.
C18_OneTurnIffOverview ==
    [][IF runs'["format_output"] = runs["format_output"]
       THEN state'.history = state.history
       ELSE LET overview == IF Truthy(state.overview) THEN state.overview
                            ELSE IF Truthy(state.answer) THEN state.answer ELSE JStr("")
                topics == IF Truthy(state.topics) THEN state.topics.items ELSE <<>>
            IN IF Truthy(overview)
               THEN /\ Len(state'.history) = Len(state.history) + 1
                    /\ SubSeq(state'.history, 1, Len(state.history)) = state.history
                    /\ state'.history[Len(state'.history)].role = "assistant"
                    /\ IsStr(overview) =>
                          state'.history[Len(state'.history)].content =
                              JStr(overview.s \o TopicLines(topics))
               ELSE state'.history = state.history]_vars

\* C13: with no image-provider key or no zone, the step of enrich_images leaves every
\* field of the state as it is (overview_image and each citation's image included),
\* sends no request, starts no worker, and the node returns.
C13_NoCredentialNoChange ==
    [][(pc = "enrich_images" /\ NoCreds) =>
          /\ state' = state
          /\ calls' = calls
          /\ pool' = <<>>
          /\ escaped' = ""
          /\ pc' = "format_output"]_vars

\* enrich_images returned with a key but no zone, on a state with no overview image
\* and a citation without an image: nothing was searched.
C13_Witness ==
    /\ pc = "format_output" /\ runs["enrich_images"] = 1
    /\ env.BRIGHT_DATA_API_KEY /\ ~env.SERP_ZONE
    /\ state.overview_image = None
    /\ Len(CitationsOf(state)) >= 1 /\ CitationsOf(state)[1].image = None
    /\ calls = NoCalls /\ pool = <<>>

\* What worker i found, read off the answers its own two requests got: nothing on a
\* transport error (timeout, HTTP error) or an answer that is no object, the image of
\* the first request, or else that of the domain request.
OwnOutcome(i) ==
    CASE pool[i].tier1 = Images(<<"https://en.wikipedia.org/wiki/X", "https://img.example/a.jpg">>)
            -> JStr("https://img.example/a.jpg")
      [] /\ pool[i].tier1 = Images(<<"https://en.wikipedia.org/wiki/X">>)
         /\ pool[i].tier2 = Images(<<"https://img.example/b.png">>)
            -> JStr("https://img.example/b.png")
      [] OTHER -> None
\* The fan-out is under way or over, and nothing ended the stage.
FanoutIntact == pc \in {"fan_out", "format_output"} /\ escaped = ""
\* The citations whose future is not collected yet are as the caller gave them.
Untouched ==
    \A i \in DOMAIN pool :
        /\ pool[i].ph = "has_image" => state.citations.items[i] = EnrichTable[i][2]
        /\ pool[i].ph \in {"queued", "running", "fallback", "finished"} =>
              state.citations.items[i] = EnrichTable[i][1]

NonBlank(image) == image # None /\ image.s \notin {"", " "}
\* A step keeps the citations' number, order, id, title, url and extended_snippet,
\* keeps every non-blank image, and sends no request for a citation given with one.
CitationsFramed ==
    /\ Len(CitationsOf(state')) = Len(CitationsOf(state))
    /\ \A i \in 1..Len(CitationsOf(state)) :
          /\ CitationsOf(state')[i].id = CitationsOf(state)[i].id
          /\ CitationsOf(state')[i].title = CitationsOf(state)[i].title
          /\ CitationsOf(state')[i].url = CitationsOf(state)[i].url
          /\ CitationsOf(state')[i].extended_snippet = CitationsOf(state)[i].extended_snippet
          /\ NonBlank(CitationsOf(state)[i].image) =>
                CitationsOf(state')[i].image = CitationsOf(state)[i].image
          /\ (CitationsOf(state)[i] = EnrichTable[i][2] /\ pool' # <<>>) =>
                /\ pool'[i].ph = "has_image"
                /\ pool'[i].composite = 0 /\ pool'[i].domain = 0

C15_AtMostFiveWorkers ==
    LET needing == {i \in DOMAIN pool : pool[i].ph # "has_image"}
        working == {i \in DOMAIN pool : pool[i].ph \in {"running", "fallback"}}
    IN /\ Cardinality(working) <= 5
       /\ Cardinality(working) <= Cardinality(needing)

\* Six citations need an image: five workers run and the sixth task waits in the queue.
C15_Witness ==
    /\ pc = "fan_out" /\ Len(pool) = 6
    /\ Cardinality({i \in DOMAIN pool : pool[i].ph = "running"}) = 5
    /\ Cardinality({i \in DOMAIN pool : pool[i].ph = "queued"}) = 1

\* The pieces of a URL by kind (places in UrlPieces), and the lower-case text of each;
\* places 9 and 10 are a scheme that lost its two slashes.
SchemePieces == {1, 2, 3}
WwwPieces == {4, 5}
LowerText ==
    <<<<"h", "t", "t", "p", ":", "/", "/">>,
      <<"h", "t", "t", "p", "s", ":", "/", "/">>,
      <<"h", "t", "t", "p", ":", "/", "/">>,
      <<"w", "w", "w", ".">>,
      <<"w", "w", "w", ".">>,
      <<"e", "x", "a", "m", "p", "l", "e", ".", "c", "o", "m", "/", "p", "a", "t", "h">>,
      <<"/">>, <<" ">>, <<"h", "t", "t", "p", ":">>, <<"h", "t", "t", "p", "s", ":">>>>
RECURSIVE WithoutLeading(_, _)
WithoutLeading(parts, kinds) ==
    IF parts # <<>> /\ Head(parts) \in kinds THEN WithoutLeading(Tail(parts), kinds) ELSE parts
RECURSIVE WithoutTrailing(_, _)
WithoutTrailing(parts, kinds) ==
    IF parts # <<>> /\ parts[Len(parts)] \in kinds
    THEN WithoutTrailing(SubSeq(parts, 1, Len(parts) - 1), kinds) ELSE parts
RECURSIVE TextOf(_)
TextOf(parts) == IF parts = <<>> THEN <<>> ELSE LowerText[Head(parts)] \o TextOf(Tail(parts))
\* The URL without the blanks around it and without the slashes at its end.
Trimmed(parts) == WithoutTrailing(WithoutTrailing(WithoutLeading(parts, {8}), {8}), {7})
\* Trimmed, with the slashes of a scheme that ends the URL cut as well.
TrimmedToColon(parts) ==
    LET t == Trimmed(parts)
    IN IF t # <<>> /\ t[Len(t)] \in {1, 3} THEN SubSeq(t, 1, Len(t) - 1) \o <<9>>
       ELSE IF t # <<>> /\ t[Len(t)] = 2 THEN SubSeq(t, 1, Len(t) - 1) \o <<10>>
       ELSE t
\* Without a leading http:// and, after that, a leading https://.
WithoutSchemes(parts) ==
    LET a == IF parts # <<>> /\ Head(parts) \in {1, 3} THEN Tail(parts) ELSE parts
    IN IF a # <<>> /\ Head(a) = 2 THEN Tail(a) ELSE a
WithoutWww(parts) == IF parts # <<>> /\ Head(parts) \in WwwPieces THEN Tail(parts) ELSE parts
\* A URL that is the host and path, with or without one scheme and one "www." before
\* it, slashes after it and blanks around it.
Decorated(parts) ==
    \/ Trimmed(parts) = <<6>>
    \/ \E sch \in SchemePieces : Trimmed(parts) = <<sch, 6>>
    \/ \E w \in WwwPieces : Trimmed(parts) = <<w, 6>>
    \/ \E sch \in SchemePieces : \E w \in WwwPieces : Trimmed(parts) = <<sch, w, 6>>

\* C20 (as stated): _normalize_url returns the URL lower-cased, without the whitespace
\* around it, without one trailing slash, without one leading scheme and without one
\* leading "www."; hence every URL that is the same host and path written in either
\* case, with or without a scheme, a "www." and a trailing slash, normalizes to the
\* same string.
C20_OneSlashOneScheme ==
    pc = "returned" =>
        /\ call.ret = normalize_url_once(call.url)
        /\ Decorated(call.parts) => call.ret = normalize_url_once(<<"e", "x", "a", "m", "p", "l", "e", ".", "c", "o", "m", "/", "P", "a", "t", "h">>)

\* C20 (amended): _normalize_url returns the URL lower-cased, without the whitespace
\* around it, without any of its trailing slashes, without a leading http:// and then
\* a leading https://, and without one leading "www."; hence every URL that is the same
\* host and path written in either case, with or without one scheme, one "www.",
\* trailing slashes and surrounding blanks, normalizes to the same string.
C20_AllSlashesBothSchemes ==
    pc = "returned" =>
        /\ call.ret = TextOf(WithoutWww(WithoutSchemes(TrimmedToColon(call.parts))))
        /\ Decorated(call.parts) => call.ret = <<"e", "x", "a", "m", "p", "l", "e", ".", "c", "o", "m", "/", "p", "a", "t", "h">>

\* The call on HTTP://WWW.Example.com/Path/ returned what example.com/Path
\* normalizes to.
C20_Witness ==
    /\ pc = "returned"
    /\ call.url = <<"H", "T", "T", "P", ":", "/", "/", "W", "W", "W", ".", "E", "x", "a", "m", "p", "l", "e", ".", "c", "o", "m", "/", "P", "a", "t", "h", "/">>
    /\ call.ret = <<"e", "x", "a", "m", "p", "l", "e", ".", "c", "o", "m", "/", "p", "a", "t", "h">>
    /\ call.ret = normalize_url(<<"e", "x", "a", "m", "p", "l", "e", ".", "c", "o", "m", "/", "P", "a", "t", "h">>)

\* C30 (as stated): once synthesize has returned, answer equals overview, and the
\* overview of the final payload is a string, whatever JSON value the LLM gave as
\* overview.
C30_OverviewIsText ==
    /\ (runs["synthesize"] = 1 /\ pc # "failed") => state.answer = state.overview
    /\ pc = "done" => IsStr(state.final_payload.overview)

\* C29: no step changes query; only a step of search changes results; overview,
\* topics and citations are absent before synthesize has run and final_payload before
\* format_output has run; and a step never makes a field that is set (overview,
\* overview_image, topics, citations, final_payload) absent again.
C29_FieldOwnership ==
    [][/\ state'.query = state.query
       /\ pc # "search" => state'.results = state.results
       /\ runs'["synthesize"] = 0 =>
             state'.overview = None /\ state'.topics = None /\ state'.citations = None
       /\ runs'["format_output"] = 0 => state'.final_payload = None
       /\ \A field \in {"overview", "overview_image", "topics", "citations", "final_payload"} :
             state[field] # None => state'[field] # None]_vars

\* A finished run: search found results and an overview image, synthesize gave an
\* overview, topics and citations, and all of them are still there beside the payload.
C29_Witness ==
    /\ pc = "done"
    /\ IsList(state.results) /\ Len(state.results.items) >= 2
    /\ IsStr(state.overview_image)
    /\ IsStr(state.overview) /\ state.overview.s # ""
    /\ IsList(state.topics) /\ state.topics.items # <<>>
    /\ IsList(state.citations) /\ state.citations.items # <<>>
    /\ state.final_payload # None

\* The body search decoded from the provider's answer, when it is an object.
BodyOf ==
    LET raw == Get(serp.v, "body", EmptyDict)
    IN IF IsStr(raw) THEN json_loads(raw.s).val ELSE raw
BodyRead ==
    /\ runs["search"] = 1 /\ serp.k = "json" /\ IsDict(serp.v)
    /\ LET raw == Get(serp.v, "body", EmptyDict)
       IN IF IsStr(raw) THEN json_loads(raw.s).exc = "" /\ IsDict(json_loads(raw.s).val)
          ELSE IsDict(raw)
\* The first of the keys under which d has a usable (truthy) value, null when none.
RECURSIVE FirstUsable(_, _)
FirstUsable(d, keys) ==
    IF keys = <<>> THEN None
    ELSE IF Head(keys) \in DOMAIN d.f /\ Truthy(d.f[Head(keys)]) THEN d.f[Head(keys)]
    ELSE FirstUsable(d, Tail(keys))
\* The image each place offers, null when the place is missing or unusable.
KgOffer(body) ==
    IF /\ "knowledge_graph" \in DOMAIN body.f /\ IsDict(body.f["knowledge_graph"])
       /\ IsStr(FirstUsable(body.f["knowledge_graph"], <<"image">>))
    THEN body.f["knowledge_graph"].f["image"] ELSE None
ImagesOffer(body) ==
    IF /\ "images" \in DOMAIN body.f /\ IsList(body.f["images"])
       /\ body.f["images"].items # <<>> /\ IsDict(body.f["images"].items[1])
    THEN FirstUsable(body.f["images"].items[1], <<"original", "link", "thumbnail">>)
    ELSE None
OrganicOffer(body) ==
    IF /\ "organic" \in DOMAIN body.f /\ IsList(body.f["organic"])
       /\ body.f["organic"].items # <<>> /\ IsDict(body.f["organic"].items[1])
    THEN FirstUsable(body.f["organic"].items[1],
                     <<"thumbnail", "image", "og_image", "preview_image">>)
    ELSE None

\* C28 (as stated): when search got an answer whose body is an object, choosing the
\* overview image raises nothing, and overview_image is the knowledge-graph image,
\* else the image of the first image result, else the thumbnail or other image field
\* of the top organic result, else unset; a place that is missing or unusable is
\* passed over.
C28_TiersInOrderNoRaise ==
    BodyRead =>
        /\ OverviewImageTiers(BodyOf).exc = ""
        /\ state.overview_image =
              (IF KgOffer(BodyOf) # None THEN KgOffer(BodyOf)
               ELSE IF ImagesOffer(BodyOf) # None THEN ImagesOffer(BodyOf)
               ELSE OrganicOffer(BodyOf))

\* C27 (as stated): after synthesize, a citation whose url equals, as a string, the
\* url of one of the results the stage worked on (the first five of state.results) has
\* that result's extended_snippet, and a citation whose url equals none of them has a
\* null extended_snippet.
C27_SnippetOfWorkedResult ==
    (runs["synthesize"] = 1 /\ pc # "failed") =>
        LET worked == IF Truthy(state.results) THEN Take(state.results.items, 5) ELSE <<>>
        IN \A i \in 1..Len(CitationsOf(state)) :
              LET c == CitationsOf(state)[i]
                  equal == {j \in 1..Len(worked) : worked[j].url = c.url}
              IN IF equal = {} THEN c.extended_snippet = None
                 ELSE \E j \in equal : c.extended_snippet = worked[j].extended_snippet

\* C26: once enrich_images has sorted its citations, there is one worker for each
\* citation given without an image and none for a citation given with one; a worker
\* sends each of its requests at most once; and when the node has returned, every
\* worker has run and has been collected, none is queued, running or uncollected.
C26_OneWorkerEachAllFinished ==
    /\ pool # <<>> =>
          /\ Len(pool) = Len(CitationsOf(state))
          /\ \A i \in DOMAIN pool :
                /\ pool[i].ph = "has_image" <=> state.citations.items[i] = EnrichTable[i][2]
                /\ pool[i].ph = "has_image" => pool[i].composite = 0 /\ pool[i].domain = 0
                /\ pool[i].composite <= 1 /\ pool[i].domain <= 1
                /\ pool[i].ph \in {"finished", "collected"} => pool[i].composite = 1
    /\ pc = "format_output" =>
          \A i \in DOMAIN pool : pool[i].ph \in {"has_image", "collected"}
    /\ (pc = "format_output" /\ ImageCreds(env)) =>
          \A i \in 1..Len(CitationsOf(state)) :
              ~NonBlank(CitationsOf(state)[i].image) =>
                  pool # <<>> /\ pool[i].ph = "collected"

\* enrich_images returned on three citations, the second given with an image: the
\* workers of the first and the third were collected, the first after one request,
\* the third after two, and no worker existed for the second.
C26_Witness ==
    /\ pc = "format_output" /\ Len(pool) = 3
    /\ pool[1].ph = "collected" /\ pool[1].composite = 1 /\ pool[1].domain = 0
    /\ pool[2].ph = "has_image" /\ pool[2].composite = 0
    /\ pool[3].ph = "collected" /\ pool[3].composite = 1 /\ pool[3].domain = 1

\* The workers that have ended, and whether one reported an image.
Ended == {i \in DOMAIN pool : pool[i].ph \in {"finished", "collected"}}
Reported(i) == pool[i].result.exc = "" /\ Truthy(pool[i].result.val)
\* The domain request is never sent before the title+context request, and never
\* after an image was accepted from it.
TitleTierFirst ==
    \A i \in DOMAIN pool :
        /\ pool[i].domain = 1 => pool[i].composite = 1
        /\ pool[i].tier1 = Images(<<"https://en.wikipedia.org/wiki/X", "https://img.example/a.jpg">>)
              => pool[i].domain = 0 /\ pool[i].ph \in {"finished", "collected"}
                 /\ pool[i].result = Ok(JStr("https://img.example/a.jpg"))

BackfillStep == pc = "enrich_images" /\ pc' # "enrich_images"
BackfillSent == calls'.overview_image - calls.overview_image
BackfillDue == ImageCreds(env) /\ ~Truthy(state.overview_image) /\ state.query # ""

\* C24: the head of enrich_images sends an overview-image request exactly when the
\* overview image is unset and the query is non-empty (credentials given), and then
\* one; an overview image that was set is kept; whatever the request's outcome no
\* exception leaves enrich_images, and the overview image changes only from unset to
\* an accepted image url.
C24_BackfillOnceNeverFails ==
    [][BackfillStep =>
          /\ BackfillSent = (IF BackfillDue THEN 1 ELSE 0)
          /\ Truthy(state.overview_image) => state'.overview_image = state.overview_image
          /\ state'.overview_image # state.overview_image =>
                BackfillDue /\ state'.overview_image = JStr("https://img.example/c.gif")
          /\ escaped' = "" /\ pc' # "failed"]_vars

\* C21: _match_url returns true for two URLs of the same host (whatever their scheme,
\* "www.", path and trailing slash, so also when only scheme, "www." or trailing slash
\* differ), false for two URLs of different hosts, and the same with its arguments
\* swapped.
C21_MatchIsSameHost ==
    (pc = "returned" /\ call.fn = "_match_url") =>
        /\ call.ret = (call.a.host = call.b.host)
        /\ call.ret = match_url(call.result_url, call.llm_url)

\* prioritize_sources has ended, one way or the other; the results it was given; the
\* ranked results it left, if it left any.
PrioritizeEnded == call.fn = "prioritize_sources" /\ pc \in {"returned", "failed"}
GivenResults == [i \in 1..call.n |-> RankedResult(i)]
RankedLeft == IF "ranked_results" \in DOMAIN state THEN state.ranked_results.items ELSE <<>>
ScoreOf(r) == IF "reputability_score" \in DOMAIN r THEN r.reputability_score ELSE None
\* The first given result a proposed entry matches (0: none).
Origin(entry) ==
    IF IsDict(entry) /\ "url" \in DOMAIN entry.f /\ IsStr(entry.f["url"])
       /\ \E k \in 1..call.n : match_url(entry.f["url"].s, GivenResults[k].url)
    THEN CHOOSE k \in 1..call.n :
            /\ match_url(entry.f["url"].s, GivenResults[k].url)
            /\ \A j \in 1..(k - 1) : ~match_url(entry.f["url"].s, GivenResults[j].url)
    ELSE 0
Answered == llm.k = "json" /\ IsList(llm.v)
RankingFallsBack ==
    \/ ~env.OPENAI_API_KEY
    \/ llm \in {LLMError, NoContent, NotJson}
    \/ Answered /\ \A p \in DOMAIN llm.v.items : Origin(llm.v.items[p]) = 0

\* C22: when the credential is absent, the LLM call fails, its output is empty or no
\* JSON, or no proposed entry matches a result, prioritize_sources returns normally,
\* ranked_results is the first min(len(results), PRIORITIZE_MAX_RESULTS) results in
\* the given order, and each of them has the score 0.0 (none had a score before).
C22_FallbackRanksFirstResults ==
    (PrioritizeEnded /\ RankingFallsBack) =>
        /\ pc = "returned" /\ escaped = ""
        /\ "ranked_results" \in DOMAIN state
        /\ Len(RankedLeft) = Min(call.n, PRIORITIZE_MAX_RESULTS)
        /\ \A j \in DOMAIN RankedLeft :
              RankedLeft[j].url = GivenResults[j].url /\ ScoreOf(RankedLeft[j]) = JFloat(0)

\* The answers made only of well-formed entries, one of which matches a result; the
\* rank the answer resolves for a result (that of the last entry resolved to it), and
\* the place of a ranked result among the given ones.
RankingSucceeds ==
    /\ env.OPENAI_API_KEY /\ Answered
    /\ \A p \in DOMAIN llm.v.items :
          IsDict(llm.v.items[p]) /\ IsStr(llm.v.items[p].f["url"]) /\ IsInt(llm.v.items[p].f["rank"])
    /\ \E p \in DOMAIN llm.v.items : Origin(llm.v.items[p]) # 0
EntriesOf(k) == {p \in DOMAIN llm.v.items : Origin(llm.v.items[p]) = k}
Resolved(k) == EntriesOf(k) # {}
ResolvedRank(k) == llm.v.items[CHOOSE p \in EntriesOf(k) : \A q \in EntriesOf(k) : q <= p].f["rank"].n
PlaceOf(r) == CHOOSE k \in 1..call.n : GivenResults[k].url = r.url
Before(k, l) ==
    \/ Resolved(k) /\ ~Resolved(l)
    \/ Resolved(k) /\ Resolved(l) /\ ResolvedRank(k) < ResolvedRank(l)
    \/ (Resolved(k) <=> Resolved(l)) /\ (Resolved(k) => ResolvedRank(k) = ResolvedRank(l)) /\ k < l

\* C23: after an answer whose entries match results, prioritize_sources returns
\* normally; each matched result has the score 11.0 minus its rank; ranked_results
\* holds min(len(results), PRIORITIZE_MAX_RESULTS) distinct results, ascending by
\* rank, every unmatched result after all matched ones, ties in the given order, and
\* no result left out goes before one that is in.
C23_RankedByRankThenOrder ==
    (PrioritizeEnded /\ RankingSucceeds) =>
        /\ pc = "returned" /\ escaped = ""
        /\ "ranked_results" \in DOMAIN state
        /\ \A k \in 1..call.n :
              Resolved(k) => ScoreOf(state.results.items[k]) = JFloat(11 - ResolvedRank(k))
        /\ Len(RankedLeft) = Min(call.n, PRIORITIZE_MAX_RESULTS)
        /\ \A j \in DOMAIN RankedLeft :
              /\ \E k \in 1..call.n : RankedLeft[j] = state.results.items[k]
              /\ \A i \in 1..(j - 1) : Before(PlaceOf(RankedLeft[i]), PlaceOf(RankedLeft[j]))
              /\ \A k \in 1..call.n :
                    (\A i \in DOMAIN RankedLeft : PlaceOf(RankedLeft[i]) # k)
                        => Before(PlaceOf(RankedLeft[j]), k)

====
